---- MODULE Spec2Model ----
(***************************************************************************)
(* Detection-and-evidence engine of the pet-monitoring camera:             *)
(*   EventManager   src/src/services/eventManager.ts                       *)
(*   ClipRecorder   src/src/services/clipRecorder.ts                       *)
(*   useDetection   src/src/hooks/useDetection.ts   (camera-side glue)     *)
(*   DetectionSettings / EventFeed  (viewer-side consumers)                *)
(*                                                                         *)
(* Units.  Times are milliseconds, as Date.now() gives them.  Confidences  *)
(* and sensitivities are thousandths (500 stands for 0.5), so that the     *)
(* comparison confidence < 0.6 - sensitivity*0.4 is the integer comparison *)
(* confidence*1000 < 600000 - sensitivity*400.                             *)
(*                                                                         *)
(* JSON.  A message text is modelled by the JSON value it denotes: an      *)
(* object is a function from its keys to its values, and a text that does  *)
(* not parse is [ok |-> FALSE].  A consumer reads a key of the parsed      *)
(* object only through Has/Get, as JavaScript property access does.        *)
(***************************************************************************)
EXTENDS Integers, Sequences, FiniteSets, TLC

VARIABLES
    now,            \* Date.now()
    settings,       \* EventManager.settings
    lastEventTime,  \* EventManager.lastEventTime
    nCalls,         \* number of handleDetection calls made so far
    lastCall,       \* the latest handleDetection call: its inputs, result and callback invocations
    awaiting,       \* accepted calls whose onEvent callback has not settled
    accepted,       \* per type, the timestamps of the events accepted so far
    sinceReset,     \* per type, those accepted after the latest resetCooldown of the type
    nResets,        \* number of resetCooldown calls made so far
    lastOp,         \* the latest settings operation on the camera and its input
    room,           \* useDetection's room option is non-null
    toCamera,       \* data packets in flight to the camera
    toViewer,       \* data packets in flight to the viewer
    vSettings,      \* viewer: DetectionSettings component state
    vFeed,          \* viewer: EventFeed component state (live events, newest first)
    vLast,          \* viewer: the latest packet handled and what the consumers did with it
    isBuffering,    \* ClipRecorder.isBuffering
    mediaRecorder,  \* ClipRecorder.mediaRecorder: 0 for null, else the number of the MediaRecorder
    preBuffer,      \* ClipRecorder.preBuffer: chunk numbers, oldest first
    recorders,      \* every MediaRecorder created: "recording", "stopping" (last chunk due) or "inactive"
    captures,       \* every captureEvent call: its locals, where it stands, its outcome
    db,             \* the IndexedDB store 'clips'
    chunkLog,       \* the recorder of every non-empty dataavailable so far: chunk k came from chunkLog[k]
    config,         \* ClipRecorder.config (preBufferSeconds, postBufferSeconds)
    captureOf,      \* useDetection handleEvent: the captureEvent call made for each accepted handleDetection call
    lastStoreOp,    \* the latest getClips / markSynced / deleteClip call: its input and outcome
    previousFrame,  \* MotionDetector.previousFrame: <<>> for null, else <<frame>>
    motionConfig,   \* MotionDetector.config
    lastMotion,     \* the latest MotionDetector operation: its input and result
    audioContext,   \* SoundDetector.audioContext: 0 for null, else the number of the AudioContext
    analyser,       \* SoundDetector.analyser: 0 for null, else the number of the AnalyserNode
    source,         \* SoundDetector.source: 0 for null, else the number of the source node
    dataArray,      \* SoundDetector.dataArray is non-null
    soundConfig,    \* SoundDetector.config
    isConnected,    \* SoundDetector.isConnected
    contexts,       \* every AudioContext created: "suspended", "running" or "closed"
    analysers,      \* every AnalyserNode created: the context it belongs to
    sources,        \* every MediaStreamAudioSourceNode created: its context, the analyser it feeds (0: none)
    connects,       \* every connect() call: where it stands and the context it created
    lastSound,      \* the latest SoundDetector operation and its result
    enabled,        \* useDetection's enabled option
    videoStream,    \* useDetection's videoStream option is non-null
    services,       \* how many times useDetection's initialization effect has created its services
    serverNow,      \* server: new Date() / Date.now()
    pairingCodes,   \* server: the PairingCode table, one record per row
    devices,        \* server: the Device table; each row with the pairing code it was created for
    requests        \* server: every POST /complete request: its code, where it stands, its response

emVars == <<now, settings, lastEventTime, nCalls, lastCall, awaiting, accepted, sinceReset, nResets>>
syncVars == <<lastOp, room, toCamera, toViewer, vSettings, vFeed, vLast>>
recVars == <<isBuffering, mediaRecorder, preBuffer, recorders, captures, db, chunkLog>>
motionVars == <<previousFrame, motionConfig, lastMotion>>
soundVars == <<audioContext, analyser, source, dataArray, soundConfig, isConnected,
               contexts, analysers, sources, connects, lastSound>>
hookVars == <<enabled, videoStream, services>>
serverVars == <<serverNow, pairingCodes, devices, requests>>
extVars == <<config, captureOf, lastStoreOp, motionVars, soundVars, hookVars, serverVars>>

----------------------------------------------------------------------------
(* Bounds of the model *)

MaxElapsedSeconds == 31
MaxCalls == 2
MaxResets == 1
MaxInFlight == 1
MaxSettingsOps == 2

(* Date.now() when the EventManager is constructed: any epoch time; all that *)
(* matters is that it exceeds every cooldown, as a real clock does.          *)
StartTime == 100 * 1000

TickSteps == {10000, 21000}

EventTypes == {"motion", "sound"}
Confidences == {300, 500, 900}
SensValues == {0, 500, 1000}
CooldownValues == {10, 30}
DeviceId == "cam_1"

----------------------------------------------------------------------------
(* eventManager.ts *)

SettingsFields ==
    {"motionEnabled", "soundEnabled", "motionSensitivity", "soundSensitivity", "cooldownSeconds"}

DEFAULT_SETTINGS ==
    [motionEnabled |-> TRUE, soundEnabled |-> TRUE,
     motionSensitivity |-> 500, soundSensitivity |-> 500,
     cooldownSeconds |-> 30]

FieldValues(f) ==
    CASE f \in {"motionEnabled", "soundEnabled"} -> BOOLEAN
      [] f \in {"motionSensitivity", "soundSensitivity"} -> SensValues
      [] OTHER -> CooldownValues

Has(obj, k) == k \in DOMAIN obj
Get(obj, k) == obj[k]

(* { ...a, ...b }: the keys of b override those of a *)
Spread(a, b) ==
    [k \in (DOMAIN a) \cup (DOMAIN b) |-> IF k \in DOMAIN b THEN b[k] ELSE a[k]]

EmptyObject == [k \in {} |-> TRUE]

(* Partial<DetectionSettings> values the operations are driven with; a      *)
(* sensitivity is any number the caller passes (1500 stands for 1.5)        *)
Partials ==
    {EmptyObject,
     ("motionEnabled" :> FALSE), ("soundEnabled" :> TRUE),
     ("motionSensitivity" :> 1000), ("soundSensitivity" :> 0),
     ("cooldownSeconds" :> 10),
     ("cooldownSeconds" :> 30) @@ ("motionSensitivity" :> 500),
     ("soundSensitivity" :> 1500)}

(* Those that move the gate of handleDetection *)
GatePartials ==
    {("motionEnabled" :> FALSE), ("motionSensitivity" :> 1000), ("soundSensitivity" :> 0),
     ("cooldownSeconds" :> 10)}

IsEnabled(s, type) ==
    IF type = "motion" THEN s.motionEnabled ELSE s.soundEnabled

CooldownMs(s) == s.cooldownSeconds * 1000

(* Faulty variant, for comparison: the instant the cooldown ends still      *)
(* counts as cooldown                                                       *)
InCooldownInclusive(s, last, type, t) == t - last[type] <= CooldownMs(s)

(* Faulty variant, for comparison: the elapsed milliseconds compared with   *)
(* the cooldown in seconds                                                  *)
InCooldownSeconds(s, last, type, t) == t - last[type] < s.cooldownSeconds

InCooldown(s, last, type, t) == t - last[type] < CooldownMs(s)

(* minConfidence, in millionths *)
MinConfidence(s, type) ==
    IF type = "motion"
    THEN 600000 - s.motionSensitivity * 400
    ELSE 600000 - s.soundSensitivity * 400

BelowMinConfidence(s, type, confidence) ==
    confidence * 1000 < MinConfidence(s, type)

(* Faulty variant, for comparison: the confidence gate left out             *)
RejectsWithoutConfidence(s, last, type, confidence, t) ==
    \/ ~IsEnabled(s, type)
    \/ InCooldown(s, last, type, t)

(* handleDetection's three early returns *)
Rejects(s, last, type, confidence, t) ==
    \/ ~IsEnabled(s, type)
    \/ InCooldown(s, last, type, t)
    \/ BelowMinConfidence(s, type, confidence)

(* Faulty variant, for comparison: the record is replaced, the other type   *)
(* falling back to 0                                                        *)
RecordAcceptedReplacing(last, type, t) ==
    [k \in EventTypes |-> IF k = type THEN t ELSE 0]

(* Faulty variant, for comparison: one timestamp for both types             *)
RecordAcceptedBoth(last, type, t) == [k \in EventTypes |-> t]

(* this.lastEventTime[type] = now (87) *)
RecordAccepted(last, type, t) == [last EXCEPT ![type] = t]

DetectionEvent(type, t, confidence) ==
    [type |-> type, timestamp |-> t, confidence |-> confidence, deviceId |-> DeviceId]

NoCall == [n |-> 0]

(* handleDetection up to and including the call of callbacks.onEvent; the    *)
(* await of the callback ends in OnEventFulfilled / OnEventRejected.         *)
(* What the call does to the EventManager:                                   *)
HandleDetectionCall(type, confidence) ==
    /\ nCalls < MaxCalls
    /\ nCalls' = nCalls + 1
    /\ LET rejected == Rejects(settings, lastEventTime, type, confidence, now)
           event == DetectionEvent(type, now, confidence)
       IN IF rejected
          THEN /\ lastCall' = [n |-> nCalls + 1, type |-> type, confidence |-> confidence,
                               at |-> now, result |-> "false",
                               callbacks |-> <<>>]
               /\ UNCHANGED <<lastEventTime, awaiting, accepted, sinceReset>>
          ELSE /\ lastEventTime' = RecordAccepted(lastEventTime, type, now)
               /\ lastCall' = [n |-> nCalls + 1, type |-> type, confidence |-> confidence,
                               at |-> now, result |-> "pending",
                               callbacks |-> <<event>>]
               /\ awaiting' = awaiting \cup {[n |-> nCalls + 1, event |-> event]}
               /\ accepted' = [accepted EXCEPT ![type] = @ \cup {now}]
               /\ sinceReset' = [sinceReset EXCEPT ![type] = @ \cup {now}]
    /\ UNCHANGED <<now, settings, nResets>>

(* handleDetection with an onEvent callback that leaves the recorder alone   *)
HandleDetection(type, confidence) ==
    /\ HandleDetectionCall(type, confidence)
    /\ UNCHANGED syncVars
    /\ UNCHANGED recVars
    /\ UNCHANGED extVars

(* The awaited onEvent callback is useDetection's handleEvent                *)
(* (useDetection.ts 62-101): it awaits captureEvent, then, with a room,      *)
(* publishes createEventMessage(event) on topic 'detection'.  The capture's  *)
(* outcome is abstracted here to "did not throw" / "threw"; publishData may  *)
(* resolve (the packet is in flight) or reject (caught and logged).          *)

viewer_ == <<"v", "i", "e", "w", "e", "r", "_">>
cam_ == <<"c", "a", "m", "_">>

StartsWith(s, prefix) ==
    /\ Len(s) >= Len(prefix)
    /\ SubSeq(s, 1, Len(prefix)) = prefix

CameraIdentity == cam_ \o <<"1">>
ViewerIdentity == viewer_ \o <<"1">>

Stringify(obj) == [ok |-> TRUE, json |-> obj]
NotJson == [ok |-> FALSE]

CreateEventMessage(event) ==
    Stringify([type |-> "detection_event", event |-> event])

CreateSettingsMessage(s) ==
    Stringify([type |-> "detection_settings", settings |-> s])

Packet(from, topic, payload) == [from |-> from, topic |-> topic, payload |-> payload]

(* room.localParticipant.publishData(data, {reliable, topic: 'detection'}) *)
PublishData(queue, identity, payload, delivered) ==
    IF delivered THEN Append(queue, Packet(<<identity>>, "detection", payload)) ELSE queue

SetResult(call, n, result) ==
    IF call.n = n THEN [call EXCEPT !.result = result] ELSE call

(* Faulty variant, for comparison: the failed publish is not caught and      *)
(* rejects handleEvent                                                       *)
AfterPublishUncaught(attempted, delivered) ==
    IF attempted /\ ~delivered THEN "threw" ELSE "true"

(* How handleEvent ends once the capture has returned (83-100): with no room *)
(* nothing is sent; a rejecting publishData is caught and logged (95-97);    *)
(* in every case handleEvent returns and handleDetection returns true.       *)
AfterPublish(attempted, delivered) == "true"

OnEventFulfilled(c, delivered) ==
    /\ c \in awaiting
    /\ awaiting' = awaiting \ {c}
    /\ lastCall' = SetResult(lastCall, c.n, AfterPublish(room, delivered))
    /\ IF room
       THEN /\ delivered => Len(toViewer) < MaxInFlight
            /\ toViewer' = PublishData(toViewer, CameraIdentity, CreateEventMessage(c.event), delivered)
       ELSE /\ ~delivered
            /\ UNCHANGED toViewer
    /\ UNCHANGED <<now, settings, lastEventTime, nCalls, accepted, sinceReset, nResets>>
    /\ UNCHANGED <<lastOp, room, toCamera, vSettings, vFeed, vLast>>
    /\ UNCHANGED recVars
    /\ UNCHANGED extVars

OnEventRejected(c) ==
    /\ c \in awaiting
    /\ awaiting' = awaiting \ {c}
    /\ lastCall' = SetResult(lastCall, c.n, "threw")
    /\ UNCHANGED <<now, settings, lastEventTime, nCalls, accepted, sinceReset, nResets>>
    /\ UNCHANGED syncVars
    /\ UNCHANGED recVars
    /\ UNCHANGED extVars

ResetCooldown(types) ==
    /\ nResets < MaxResets
    /\ lastEventTime' = [t \in EventTypes |-> IF t \in types THEN 0 ELSE lastEventTime[t]]
    /\ sinceReset' = [t \in EventTypes |-> IF t \in types THEN {} ELSE sinceReset[t]]
    /\ nResets' = nResets + 1
    /\ UNCHANGED <<now, settings, nCalls, lastCall, awaiting, accepted>>
    /\ UNCHANGED syncVars
    /\ UNCHANGED recVars
    /\ UNCHANGED extVars

Tick(step) ==
    /\ now + step <= StartTime + MaxElapsedSeconds * 1000
    /\ now' = now + step
    /\ UNCHANGED <<settings, lastEventTime, nCalls, lastCall, awaiting, accepted, sinceReset, nResets>>
    /\ UNCHANGED syncVars
    /\ UNCHANGED recVars
    /\ UNCHANGED extVars

----------------------------------------------------------------------------
(* motionDetector.ts *)

(* Units.  A frame is the ImageData read from the analysis canvas: one       *)
(* <<r, g, b, a>> per pixel, width*height of them, each channel 0..255 (the  *)
(* canvas holds opaque video frames, so a is 255).  A score or confidence is *)
(* the fraction <<numerator, denominator>> in lowest terms; motionThreshold  *)
(* is in millionths (20000 stands for 0.02).                                 *)

(* The size of the analysis canvas the detector is constructed with          *)
(* (DEFAULT_CONFIG has 320 x 240; the constructor takes any)                 *)
FrameWidth == 2
FrameHeight == 2

MotionDefaultConfig ==
    [width |-> FrameWidth, height |-> FrameHeight, threshold |-> 25, motionThreshold |-> 20000]

Pixels == {<<0, 0, 0, 255>>, <<25, 25, 25, 255>>, <<0, 50, 51, 255>>}

(* getImageData(0, 0, width, height) after drawImage: any picture *)
Frames(w, h) == [1..(w * h) -> Pixels]

(* Partial<MotionConfig> values updateConfig is driven with *)
MotionPartials ==
    {("height" :> 1), ("height" :> FrameHeight), ("width" :> FrameWidth),
     ("threshold" :> 10), ("threshold" :> 25),
     ("motionThreshold" :> 500000), ("motionThreshold" :> 20000)}

RECURSIVE Gcd(_, _)
Gcd(a, b) == IF b = 0 THEN a ELSE Gcd(b, a % b)

(* The number n/d, d > 0 *)
Frac(n, d) == IF n = 0 THEN <<0, 1>> ELSE <<n \div Gcd(n, d), d \div Gcd(n, d)>>

(* Math.min(n/d, 1) *)
MinOne(n, d) == IF n >= d THEN <<1, 1>> ELSE Frac(n, d)

MathAbs(x) == IF x < 0 THEN 0 - x ELSE x

(* diff (68-71): red, green and blue; the alpha byte is not read *)
PixelDiff(p, q) ==
    MathAbs(p[1] - q[1]) + MathAbs(p[2] - q[2]) + MathAbs(p[3] - q[3])

(* Faulty variant, for comparison: a difference of exactly 3*threshold      *)
(* counts as changed                                                        *)
PixelChangedInclusive(diff, threshold3) == diff >= threshold3

(* diff > threshold3 (72) *)
PixelChanged(diff, threshold3) == diff > threshold3

(* The loop (67-75), from pixel i on *)
RECURSIVE ChangedPixels(_, _, _, _, _)
ChangedPixels(current, previous, threshold3, totalPixels, i) ==
    IF i > totalPixels THEN 0
    ELSE (IF PixelChanged(PixelDiff(current[i], previous[i]), threshold3) THEN 1 ELSE 0)
         + ChangedPixels(current, previous, threshold3, totalPixels, i + 1)

(* Faulty variant, for comparison: the score itself given as confidence     *)
MotionResultScoreAsConfidence(changedPixels, totalPixels, cfg) ==
    [hasMotion |-> changedPixels * 1000000 > cfg.motionThreshold * totalPixels,
     score |-> Frac(changedPixels, totalPixels),
     confidence |-> Frac(changedPixels, totalPixels)]

(* The result object (78-84) *)
MotionResult(changedPixels, totalPixels, cfg) ==
    [hasMotion |-> changedPixels * 1000000 > cfg.motionThreshold * totalPixels,
     score |-> Frac(changedPixels, totalPixels),
     confidence |-> MinOne(changedPixels * 1000000, cfg.motionThreshold * totalPixels)]

(* { hasMotion: false, score: 0, confidence: 0 } (41, 60) *)
NoMotion == [hasMotion |-> FALSE, score |-> <<0, 1>>, confidence |-> <<0, 1>>]

(* analyze (63-85) with a previous frame *)
Compare(current, previous, cfg) ==
    LET totalPixels == cfg.width * cfg.height
    IN MotionResult(ChangedPixels(current, previous, cfg.threshold * 3, totalPixels, 1),
                    totalPixels, cfg)

InitMotion ==
    /\ previousFrame = <<>>
    /\ motionConfig = MotionDefaultConfig
    /\ lastMotion = [op |-> "none"]

(* analyze(videoElement): ready is videoElement.readyState >= 2, frame what  *)
(* the canvas reads back                                                     *)
MotionAnalyze(ready, frame) ==
    /\ IF ~ready
       THEN /\ UNCHANGED previousFrame
            /\ lastMotion' = [op |-> "analyze", ready |-> ready, result |-> NoMotion]
       ELSE /\ previousFrame' = <<frame>>
            /\ lastMotion' = [op |-> "analyze", ready |-> ready,
                              result |-> IF previousFrame = <<>>
                                         THEN NoMotion
                                         ELSE Compare(frame, previousFrame[1], motionConfig)]
    /\ UNCHANGED motionConfig
    /\ UNCHANGED emVars
    /\ UNCHANGED syncVars
    /\ UNCHANGED recVars
    /\ UNCHANGED <<config, captureOf, lastStoreOp, soundVars>>
    /\ UNCHANGED hookVars
    /\ UNCHANGED serverVars

(* Faulty variant, for comparison: only a new width drops the previous frame *)
InvalidatesPreviousFrameWidthOnly(partial) == Has(partial, "width")

(* config.width !== undefined || config.height !== undefined (89-92) *)
InvalidatesPreviousFrame(partial) == Has(partial, "width") \/ Has(partial, "height")

(* updateConfig(config) (87-97): what the call does to the detector *)
MotionUpdateConfigCall(partial) ==
    /\ motionConfig' = Spread(motionConfig, partial)
    /\ previousFrame' = IF InvalidatesPreviousFrame(partial) THEN <<>> ELSE previousFrame
    /\ lastMotion' = [op |-> "updateConfig", partial |-> partial]

(* updateConfig called on its own *)
MotionUpdateConfig(partial) ==
    /\ MotionUpdateConfigCall(partial)
    /\ UNCHANGED emVars
    /\ UNCHANGED syncVars
    /\ UNCHANGED recVars
    /\ UNCHANGED <<config, captureOf, lastStoreOp, soundVars>>
    /\ UNCHANGED hookVars
    /\ UNCHANGED serverVars

(* reset() (99-101) *)
MotionReset ==
    /\ previousFrame' = <<>>
    /\ lastMotion' = [op |-> "reset"]
    /\ UNCHANGED motionConfig
    /\ UNCHANGED emVars
    /\ UNCHANGED syncVars
    /\ UNCHANGED recVars
    /\ UNCHANGED <<config, captureOf, lastStoreOp, soundVars>>
    /\ UNCHANGED hookVars
    /\ UNCHANGED serverVars

----------------------------------------------------------------------------
(* soundDetector.ts *)

(* Units.  volumeThreshold is in millionths (150000 stands for 0.15).  The   *)
(* volume is the root of a mean of squares; it is carried as its square, the *)
(* fraction volumeSquared in lowest terms, and compared through squares.     *)

FftSize == 4
MaxConnects == 3
MaxDisconnects == 2

SoundDefaultConfig == [volumeThreshold |-> 150000, fftSize |-> FftSize]

(* analyser.frequencyBinCount *)
FrequencyBinCount(cfg) == cfg.fftSize \div 2

(* Byte samples getByteTimeDomainData may deliver; 128 is silence *)
Bytes == {0, 128, 140, 255}

Samples == [1..FrequencyBinCount(SoundDefaultConfig) -> Bytes]

Silence == [i \in 1..FrequencyBinCount(SoundDefaultConfig) |-> 128]

(* The sum of the loop (65-69), in units of 1/128^2 *)
RECURSIVE SumSquares(_, _)
SumSquares(data, i) ==
    IF i > FrequencyBinCount(SoundDefaultConfig) THEN 0
    ELSE (data[i] - 128) * (data[i] - 128) + SumSquares(data, i + 1)

(* The result object (70-75): volume = sqrt(sum / length).  volume >        *)
(* volumeThreshold is compared through squares; the thresholds in use are    *)
(* multiples of 0.00025 (250 millionths), so with t = threshold / 250 it is  *)
(* sum/(128^2 length) > (t/4000)^2, both sides times 15625 * 128^2 * length. *)
SoundResult(data, cfg) ==
    LET sum == SumSquares(data, 1)
        length == FrequencyBinCount(SoundDefaultConfig)
        t == cfg.volumeThreshold \div 250
    IN [hasSound |-> sum * 15625 > t * t * 16 * length,
        volumeSquared |-> Frac(sum, 128 * 128 * length)]

(* { hasSound: false, volume: 0 } (59) *)
NoSound == [hasSound |-> FALSE, volumeSquared |-> <<0, 1>>]

InitSound ==
    /\ audioContext = 0
    /\ analyser = 0
    /\ source = 0
    /\ dataArray = FALSE
    /\ soundConfig = SoundDefaultConfig
    /\ isConnected = FALSE
    /\ contexts = <<>>
    /\ analysers = <<>>
    /\ sources = <<>>
    /\ connects = <<>>
    /\ lastSound = [op |-> "none", disconnected |-> FALSE, disconnects |-> 0]

(* Faulty variant, for comparison: the detector is marked connected before   *)
(* the source is created                                                     *)
BindMarkingFirst(k, sourceOk) ==
    /\ analysers' = Append(analysers, k)
    /\ analyser' = Len(analysers) + 1
    /\ isConnected' = TRUE
    /\ IF sourceOk
       THEN /\ sources' = Append(sources, [ctx |-> k, analyser |-> Len(analysers) + 1])
            /\ source' = Len(sources) + 1
            /\ dataArray' = TRUE
       ELSE UNCHANGED <<sources, source, dataArray>>

(* Lines 40-50 run on context k: the analyser is created and assigned; then  *)
(* createMediaStreamSource either throws (a stream without an audio track),  *)
(* leaving source, dataArray and isConnected as they were, or the source is  *)
(* created, connected to the analyser and the detector marked connected.     *)
Bind(k, sourceOk) ==
    /\ analysers' = Append(analysers, k)
    /\ analyser' = Len(analysers) + 1
    /\ IF sourceOk
       THEN /\ sources' = Append(sources, [ctx |-> k, analyser |-> Len(analysers) + 1])
            /\ source' = Len(sources) + 1
            /\ dataArray' = TRUE
            /\ isConnected' = TRUE
       ELSE UNCHANGED <<sources, source, dataArray, isConnected>>

(* connect(stream) up to its first suspension.  outcome "noContext": the     *)
(* AudioContext constructor throws; "running": the context needs no resume   *)
(* and the call runs to its end at once; "suspended": the call is suspended  *)
(* in await audioContext.resume() (ResumeSettled).                           *)
SoundConnect(outcome, sourceOk) ==
    /\ Len(connects) < MaxConnects
    /\ lastSound' = [op |-> "connect", disconnected |-> FALSE,
                     disconnects |-> lastSound.disconnects]
    /\ IF isConnected
       THEN /\ connects' = Append(connects, [phase |-> "returned", ctx |-> 0])
            /\ UNCHANGED <<audioContext, analyser, source, dataArray, isConnected,
                           contexts, analysers, sources>>
       ELSE IF outcome = "noContext"
       THEN /\ connects' = Append(connects, [phase |-> "threw", ctx |-> 0])
            /\ UNCHANGED <<audioContext, analyser, source, dataArray, isConnected,
                           contexts, analysers, sources>>
       ELSE /\ contexts' = Append(contexts, outcome)
            /\ audioContext' = Len(contexts) + 1
            /\ IF outcome = "suspended"
               THEN /\ connects' = Append(connects, [phase |-> "resuming",
                                                     ctx |-> Len(contexts) + 1])
                    /\ UNCHANGED <<analyser, source, dataArray, isConnected,
                                   analysers, sources>>
               ELSE /\ Bind(Len(contexts) + 1, sourceOk)
                    /\ connects' = Append(connects,
                                          [phase |-> IF sourceOk THEN "done" ELSE "threw",
                                           ctx |-> Len(contexts) + 1])
    /\ UNCHANGED emVars
    /\ UNCHANGED syncVars
    /\ UNCHANGED recVars
    /\ UNCHANGED <<config, captureOf, lastStoreOp, soundConfig, motionVars>>
    /\ UNCHANGED hookVars
    /\ UNCHANGED serverVars

(* Faulty variant, for comparison: the call goes on with the context it      *)
(* created itself                                                            *)
ContextAfterResumeOwn(i) == connects[i].ctx

(* this.audioContext as read after the await (40) *)
ContextAfterResume(i) == audioContext

(* The resume() awaited by connect call i settles.  It resolves when the     *)
(* context starts running; once the context has been closed it may resolve   *)
(* or reject.  The call then goes on with this.audioContext as it is now:    *)
(* null makes createAnalyser throw, and the call rejects.                    *)
ResumeSettled(i, ok, sourceOk) ==
    /\ i \in DOMAIN connects
    /\ connects[i].phase = "resuming"
    /\ ok \/ contexts[connects[i].ctx] = "closed"
    /\ contexts' = IF contexts[connects[i].ctx] = "closed"
                   THEN contexts
                   ELSE [contexts EXCEPT ![connects[i].ctx] = "running"]
    /\ IF ~ok \/ ContextAfterResume(i) = 0
       THEN /\ connects' = [connects EXCEPT ![i].phase = "threw"]
            /\ UNCHANGED <<analyser, source, dataArray, isConnected, analysers, sources>>
       ELSE /\ Bind(ContextAfterResume(i), sourceOk)
            /\ connects' = [connects EXCEPT ![i].phase = IF sourceOk THEN "done" ELSE "threw"]
    /\ UNCHANGED <<audioContext, lastSound>>
    /\ UNCHANGED emVars
    /\ UNCHANGED syncVars
    /\ UNCHANGED recVars
    /\ UNCHANGED <<config, captureOf, lastStoreOp, soundConfig, motionVars>>
    /\ UNCHANGED hookVars
    /\ UNCHANGED serverVars

(* disconnect() (86-98) *)
SoundDisconnect ==
    /\ lastSound.disconnects < MaxDisconnects
    /\ sources' = IF source # 0 THEN [sources EXCEPT ![source].analyser = 0] ELSE sources
    /\ source' = 0
    /\ contexts' = IF audioContext # 0
                   THEN [contexts EXCEPT ![audioContext] = "closed"]
                   ELSE contexts
    /\ audioContext' = 0
    /\ analyser' = 0
    /\ dataArray' = FALSE
    /\ isConnected' = FALSE
    /\ lastSound' = [op |-> "disconnect", disconnected |-> TRUE,
                     disconnects |-> lastSound.disconnects + 1]
    /\ UNCHANGED <<analysers, connects>>
    /\ UNCHANGED emVars
    /\ UNCHANGED syncVars
    /\ UNCHANGED recVars
    /\ UNCHANGED <<config, captureOf, lastStoreOp, soundConfig, motionVars>>
    /\ UNCHANGED hookVars
    /\ UNCHANGED serverVars

(* The fields of the detector updateConfig leaves alone *)
soundRest == <<audioContext, analyser, source, isConnected,
               contexts, analysers, sources, connects>>

(* Partial<SoundConfig> values updateConfig is driven with *)
SoundPartials == {("volumeThreshold" :> 300000), ("volumeThreshold" :> 150000)}

(* updateConfig(config) (78-84): what the call does to the detector; with an *)
(* analyser and a new fftSize a new data array is made                       *)
SoundUpdateConfigCall(partial) ==
    /\ soundConfig' = Spread(soundConfig, partial)
    /\ dataArray' = IF analyser # 0 /\ Has(partial, "fftSize") THEN TRUE ELSE dataArray
    /\ lastSound' = [lastSound EXCEPT !.op = "updateConfig"]

(* updateConfig called on its own *)
SoundUpdateConfig(partial) ==
    /\ SoundUpdateConfigCall(partial)
    /\ UNCHANGED soundRest
    /\ UNCHANGED emVars
    /\ UNCHANGED syncVars
    /\ UNCHANGED recVars
    /\ UNCHANGED <<config, captureOf, lastStoreOp, motionVars>>
    /\ UNCHANGED hookVars
    /\ UNCHANGED serverVars

(* The analyser is fed by a connected source *)
Fed(a) == \E k \in DOMAIN sources : sources[k].analyser = a

(* analyze() (57-76); data is what getByteTimeDomainData writes: silence     *)
(* when nothing feeds the analyser                                           *)
SoundAnalyze(data) ==
    /\ (analyser # 0 /\ ~Fed(analyser)) => data = Silence
    /\ lastSound' = [op |-> "analyze",
                     disconnected |-> lastSound.disconnected,
                     disconnects |-> lastSound.disconnects,
                     result |-> IF analyser = 0 \/ ~dataArray
                                THEN NoSound
                                ELSE SoundResult(data, soundConfig)]
    /\ UNCHANGED <<audioContext, analyser, source, dataArray, isConnected,
                   contexts, analysers, sources, connects>>
    /\ UNCHANGED emVars
    /\ UNCHANGED syncVars
    /\ UNCHANGED recVars
    /\ UNCHANGED <<config, captureOf, lastStoreOp, soundConfig, motionVars>>
    /\ UNCHANGED hookVars
    /\ UNCHANGED serverVars

----------------------------------------------------------------------------
(* Sensitivity (thousandths) to threshold (millionths) *)

(* Faulty variant, for comparison: the sign of the slope reversed           *)
sensitivityToMotionThresholdRising(sensitivity) == 50000 + sensitivity * 40

(* 0.05 - sensitivity * 0.04 (33-36) *)
sensitivityToMotionThreshold(sensitivity) == 50000 - sensitivity * 40

(* 0.3 - sensitivity * 0.25 (38-41) *)
sensitivityToSoundThreshold(sensitivity) == 300000 - sensitivity * 250

----------------------------------------------------------------------------
(* Settings: local updates and the settings-sync protocol *)

NoOp == [n |-> 0, op |-> "none"]

(* Faulty variant, for comparison: the update replaces the settings, absent *)
(* fields falling back to defaults                                          *)
UpdateSettingsFromDefaults(s, partial) == Spread(DEFAULT_SETTINGS, partial)

(* EventManager.updateSettings *)
UpdateSettingsMerge(s, partial) == Spread(s, partial)

(* useDetection's updateSettings, detector part (253-263): a sensitivity     *)
(* given in the update sets the threshold of its detector                    *)
ThresholdsFromUpdate(partial) ==
    /\ IF Has(partial, "motionSensitivity")
       THEN MotionUpdateConfigCall(
               ("motionThreshold" :> sensitivityToMotionThreshold(Get(partial, "motionSensitivity"))))
       ELSE UNCHANGED motionVars
    /\ IF Has(partial, "soundSensitivity")
       THEN SoundUpdateConfigCall(
               ("volumeThreshold" :> sensitivityToSoundThreshold(Get(partial, "soundSensitivity"))))
       ELSE UNCHANGED <<soundConfig, dataArray, lastSound>>
    /\ UNCHANGED soundRest

(* handleSettingsReceived (104-118): both thresholds are set from the        *)
(* settings the EventManager now holds                                       *)
ThresholdsFromSettings(s) ==
    /\ MotionUpdateConfigCall(
          ("motionThreshold" :> sensitivityToMotionThreshold(s.motionSensitivity)))
    /\ SoundUpdateConfigCall(
          ("volumeThreshold" :> sensitivityToSoundThreshold(s.soundSensitivity)))
    /\ UNCHANGED soundRest

(* useDetection's updateSettings (246-278): EventManager.updateSettings, the *)
(* detectors' thresholds, then with a room the current settings are          *)
(* published to the viewers.                                                 *)
UpdateSettings(partial, delivered) ==
    /\ lastOp.n < MaxSettingsOps
    /\ settings' = UpdateSettingsMerge(settings, partial)
    /\ lastOp' = [n |-> lastOp.n + 1, op |-> "updateSettings", partial |-> partial]
    /\ IF room
       THEN /\ delivered => Len(toViewer) < MaxInFlight
            /\ toViewer' = PublishData(toViewer, CameraIdentity,
                                       CreateSettingsMessage(settings'), delivered)
       ELSE /\ ~delivered
            /\ UNCHANGED toViewer
    /\ ThresholdsFromUpdate(partial)
    /\ UNCHANGED <<now, lastEventTime, nCalls, lastCall, awaiting, accepted, sinceReset, nResets>>
    /\ UNCHANGED <<room, toCamera, vSettings, vFeed, vLast>>
    /\ UNCHANGED recVars
    /\ UNCHANGED <<config, captureOf, lastStoreOp>>
    /\ UNCHANGED hookVars
    /\ UNCHANGED serverVars

(* Faulty variant, for comparison: the identity filter left out             *)
AcceptsPacketAnyPeer(pk) == pk.topic = "detection"

(* useDetection handleData (168-180): the topic and identity filter *)
AcceptsPacket(pk) ==
    /\ pk.topic = "detection"
    /\ Len(pk.from) = 1
    /\ StartsWith(pk.from[1], viewer_)

(* EventManager.handleSettingsMessage: whether the parsed message is applied *)
IsSettingsMessage(payload) ==
    /\ payload.ok
    /\ Has(payload.json, "type")
    /\ Get(payload.json, "type") = "detection_settings"

(* parsed.settings, undefined spreading to nothing *)
SettingsOf(payload) ==
    IF Has(payload.json, "settings") THEN Get(payload.json, "settings") ELSE EmptyObject

HandleData ==
    /\ toCamera # <<>>
    /\ lastOp.n < MaxSettingsOps
    /\ LET pk == Head(toCamera)
           applied == AcceptsPacket(pk) /\ IsSettingsMessage(pk.payload)
       IN /\ toCamera' = Tail(toCamera)
          /\ settings' = IF applied
                         THEN UpdateSettingsMerge(settings, SettingsOf(pk.payload))
                         ELSE settings
          /\ lastOp' = [n |-> lastOp.n + 1, op |-> "handleData", packet |-> pk,
                        applied |-> applied,
                        received |-> IF applied THEN <<settings'>> ELSE <<>>]
          /\ IF applied
             THEN ThresholdsFromSettings(settings')
             ELSE UNCHANGED <<motionVars, soundVars>>
    /\ UNCHANGED <<now, lastEventTime, nCalls, lastCall, awaiting, accepted, sinceReset, nResets>>
    /\ UNCHANGED <<room, toViewer, vSettings, vFeed, vLast>>
    /\ UNCHANGED recVars
    /\ UNCHANGED <<config, captureOf, lastStoreOp>>
    /\ UNCHANGED hookVars
    /\ UNCHANGED serverVars

----------------------------------------------------------------------------
(* Viewer side: DetectionSettings.tsx and EventFeed *)

MaxViewerOps == 1
MaxPeerSends == 1

(* sendSettings (80-104): the message the viewer publishes *)
ViewerSettingsMessage(newSettings) ==
    Stringify(Spread([messageType |-> "settings"], newSettings))

(* updateSetting (106-114): setSettings, then sendSettings(newSettings) *)
ViewerUpdateSetting(key, value, delivered) ==
    /\ vLast.ops < MaxViewerOps
    /\ delivered => Len(toCamera) < MaxInFlight
    /\ LET newSettings == [vSettings EXCEPT ![key] = value]
       IN /\ vSettings' = newSettings
          /\ toCamera' = PublishData(toCamera, ViewerIdentity,
                                     ViewerSettingsMessage(newSettings), delivered)
    /\ vLast' = [vLast EXCEPT !.ops = @ + 1]
    /\ UNCHANGED emVars
    /\ UNCHANGED <<lastOp, room, toViewer, vFeed>>
    /\ UNCHANGED recVars
    /\ UNCHANGED extVars

(* Any other participant of the room may publish any packet to the camera *)
PeerIdentities ==
    {<<>>,                                   \* no participant (server-sent data)
     <<ViewerIdentity>>,
     <<cam_ \o <<"2">>>>,
     <<<<"v", "i", "e", "w", "e", "r">>>>,
     <<<<"x">> \o viewer_>>}

Topics == {"detection", "chat"}

PeerPartials ==
    {EmptyObject, ("cooldownSeconds" :> 10), ("soundEnabled" :> FALSE),
     ("motionSensitivity" :> 0 - 500)}

PeerPayloads ==
    {NotJson, Stringify([type |-> "detection_settings"])}
    \cup {CreateSettingsMessage(p) : p \in PeerPartials}
    \cup {Stringify(Spread([messageType |-> "settings"], p)) : p \in PeerPartials}

(* Each identity with an applicable settings message, each payload from a     *)
(* viewer, and a viewer's settings message on another topic                   *)
PeerPackets ==
    {Packet(from, "detection", CreateSettingsMessage(("cooldownSeconds" :> 10))) :
        from \in PeerIdentities}
    \cup {Packet(<<ViewerIdentity>>, topic, payload) :
             <<topic, payload>> \in Topics \X PeerPayloads}

PeerSend(from, topic, payload) ==
    /\ vLast.peerSends < MaxPeerSends
    /\ Len(toCamera) < MaxInFlight
    /\ toCamera' = Append(toCamera, Packet(from, topic, payload))
    /\ vLast' = [vLast EXCEPT !.peerSends = @ + 1]
    /\ UNCHANGED emVars
    /\ UNCHANGED <<lastOp, room, toViewer, vSettings, vFeed>>
    /\ UNCHANGED recVars
    /\ UNCHANGED extVars

FromCamera(pk) ==
    /\ pk.topic = "detection"
    /\ Len(pk.from) = 1
    /\ StartsWith(pk.from[1], cam_)

(* EventFeed handleData (29-63): only messageType 'event' adds a live event *)
EventFeedAccepts(pk) ==
    /\ FromCamera(pk)
    /\ pk.payload.ok
    /\ Has(pk.payload.json, "messageType")
    /\ Get(pk.payload.json, "messageType") = "event"

(* data.<key>, undefined when the key is absent *)
Prop(obj, k) == IF Has(obj, k) THEN <<Get(obj, k)>> ELSE <<>>

LiveEvent(data) ==
    [type |-> Prop(data, "type"), timestamp |-> Prop(data, "timestamp"),
     deviceId |-> Prop(data, "deviceId"), confidence |-> Prop(data, "confidence"),
     isLive |-> TRUE]

MaxEvents == 20

EventFeedNext(feed, pk) ==
    IF EventFeedAccepts(pk)
    THEN SubSeq(<<LiveEvent(pk.payload.json)>> \o feed, 1,
                IF Len(feed) + 1 < MaxEvents THEN Len(feed) + 1 ELSE MaxEvents)
    ELSE feed

(* DetectionSettings handleData (44-71): only messageType 'settings' merges *)
DetectionSettingsAccepts(pk) ==
    /\ FromCamera(pk)
    /\ pk.payload.ok
    /\ Has(pk.payload.json, "messageType")
    /\ Get(pk.payload.json, "messageType") = "settings"

(* data.f ?? prev.f for each settings field *)
DetectionSettingsNext(prev, pk) ==
    IF DetectionSettingsAccepts(pk)
    THEN [f \in SettingsFields |->
             IF Has(pk.payload.json, f) THEN Get(pk.payload.json, f) ELSE prev[f]]
    ELSE prev

(* RoomEvent.DataReceived on the viewer: both consumers see the packet *)
ViewerHandleData ==
    /\ toViewer # <<>>
    /\ LET pk == Head(toViewer)
       IN /\ toViewer' = Tail(toViewer)
          /\ vFeed' = EventFeedNext(vFeed, pk)
          /\ vSettings' = DetectionSettingsNext(vSettings, pk)
          /\ vLast' = [vLast EXCEPT !.handled = <<pk>>,
                                    !.fed = EventFeedAccepts(pk),
                                    !.merged = DetectionSettingsAccepts(pk)]
    /\ UNCHANGED emVars
    /\ UNCHANGED <<lastOp, room, toCamera>>
    /\ UNCHANGED recVars
    /\ UNCHANGED extVars


----------------------------------------------------------------------------
(* clipRecorder.ts *)

(* The configuration the recorder is constructed with (DEFAULT_CONFIG has 3 *)
(* and 7 seconds; the constructor takes any), and the bounds of the model:   *)
(* MaxRecorderCalls bounds the MediaRecorders created plus the captureEvent  *)
(* calls made, MaxChunks the non-empty chunks delivered.                     *)
PreBufferSeconds == 2
PostBufferSeconds == 1
MaxRecorderCalls == 3
MaxChunks == 2
MaxRecordingSeconds == 1

InitRecorder ==
    /\ isBuffering = FALSE
    /\ mediaRecorder = 0
    /\ preBuffer = <<>>
    /\ recorders = <<>>
    /\ captures = <<>>
    /\ db = {}
    /\ chunkLog = <<>>
    /\ config = [preBufferSeconds |-> PreBufferSeconds,
                 postBufferSeconds |-> PostBufferSeconds]

(* Faulty variant, for comparison: startBuffering without its first check   *)
AlreadyBufferingNever == FALSE

(* startBuffering's first check (69-71) *)
AlreadyBuffering == isBuffering

(* startBuffering(stream).  outcome "ok": the MediaRecorder is created and    *)
(* started; "unsupported": no supported mime type, or the constructor throws *)
(* (nothing is assigned); "startThrows": the recorder is assigned and its    *)
(* start(1000) throws, which is caught before isBuffering is set.            *)
StartBuffering(outcome) ==
    /\ Len(recorders) + Len(captures) < MaxRecorderCalls
    /\ IF AlreadyBuffering \/ outcome = "unsupported"
       THEN UNCHANGED <<mediaRecorder, recorders, isBuffering>>
       ELSE /\ recorders' = Append(recorders,
                                   IF outcome = "ok" THEN "recording" ELSE "inactive")
            /\ mediaRecorder' = Len(recorders) + 1
            /\ isBuffering' = (outcome = "ok")
    /\ UNCHANGED <<preBuffer, captures, db, chunkLog>>
    /\ UNCHANGED emVars
    /\ UNCHANGED syncVars
    /\ UNCHANGED extVars

(* stopBuffering(): MediaRecorder.stop() leaves the recorder to fire one last *)
(* dataavailable with what it has gathered (FinalDataAvailable).  Nothing of  *)
(* a capture in flight is touched: its timer stays set, its handler stays on  *)
(* the stopped recorder; the field stopped only notes the phase it was in.    *)
StopBuffering ==
    /\ IF mediaRecorder # 0 /\ isBuffering
       THEN /\ recorders' = [recorders EXCEPT ![mediaRecorder] = "stopping"]
            /\ mediaRecorder' = 0
            /\ preBuffer' = <<>>
            /\ isBuffering' = FALSE
            /\ captures' = [i \in DOMAIN captures |->
                              IF captures[i].phase \in {"screenshot", "postroll"}
                              THEN [captures[i] EXCEPT !.stopped = captures[i].phase]
                              ELSE captures[i]]
       ELSE UNCHANGED <<recorders, mediaRecorder, preBuffer, isBuffering, captures>>
    /\ UNCHANGED <<db, chunkLog>>
    /\ UNCHANGED emVars
    /\ UNCHANGED syncVars
    /\ UNCHANGED extVars

(* ondataavailable (89-97): push, then keep only the last                    *)
(* config.preBufferSeconds as the configuration stands at that moment        *)
RECURSIVE KeepLast(_, _)
KeepLast(buffer, n) ==
    IF Len(buffer) > n THEN KeepLast(Tail(buffer), n) ELSE buffer

PushPreBuffer(buffer, chunk) == KeepLast(Append(buffer, chunk), config.preBufferSeconds)

(* Faulty variant, for comparison: one chunk array shared by the captures   *)
(* in flight, held by the latest                                            *)
HandlerReceivesShared(caps, i, r) ==
    /\ caps[i].phase = "postroll"
    /\ \E j \in DOMAIN caps : caps[j].phase = "postroll" /\ caps[j].rec = r
    /\ \A j \in DOMAIN caps : caps[j].phase = "postroll" => j <= i

(* captureHandler (137-141) of capture i is a listener of recorder r *)
HandlerReceives(caps, i, r) ==
    /\ caps[i].phase = "postroll"
    /\ caps[i].rec = r

(* A non-empty dataavailable event of recorder r carrying chunk k (one per   *)
(* second of recording, whenever the browser comes to dispatch it): the      *)
(* ondataavailable handler and every captureHandler listening on r run.      *)
Dispatch(r, k) ==
    /\ preBuffer' = PushPreBuffer(preBuffer, k)
    /\ captures' = [i \in DOMAIN captures |->
                      IF HandlerReceives(captures, i, r)
                      THEN [captures[i] EXCEPT !.postBufferChunks = Append(@, k)]
                      ELSE captures[i]]
    /\ chunkLog' = Append(chunkLog, r)

DataAvailable(r) ==
    /\ r \in DOMAIN recorders
    /\ recorders[r] = "recording"
    /\ Len(chunkLog) < MaxChunks
    /\ Dispatch(r, Len(chunkLog) + 1)
    /\ UNCHANGED <<isBuffering, mediaRecorder, recorders, db>>
    /\ UNCHANGED emVars
    /\ UNCHANGED syncVars
    /\ UNCHANGED extVars

(* The last dataavailable of a stopped recorder; an empty blob is ignored by *)
(* both handlers (e.data.size > 0).                                          *)
FinalDataAvailable(r, hasData) ==
    /\ r \in DOMAIN recorders
    /\ recorders[r] = "stopping"
    /\ IF hasData
       THEN /\ Len(chunkLog) < MaxChunks
            /\ Dispatch(r, Len(chunkLog) + 1)
       ELSE UNCHANGED <<preBuffer, captures, chunkLog>>
    /\ recorders' = [recorders EXCEPT ![r] = "inactive"]
    /\ UNCHANGED <<isBuffering, mediaRecorder, db>>
    /\ UNCHANGED emVars
    /\ UNCHANGED syncVars
    /\ UNCHANGED extVars

(* Faulty variant, for comparison: only the recorder reference is looked at *)
NotBufferingNoRecorder == mediaRecorder = 0

(* captureEvent's guard (117) *)
NotBuffering == ~isBuffering \/ mediaRecorder = 0

(* The Promise executor (136-153) run with the recorder at hand: with none,  *)
(* this.mediaRecorder!.addEventListener throws and captureEvent rejects;     *)
(* else the handler is added and the timer set.                              *)
BeginPostRoll(c, image) ==
    IF mediaRecorder = 0
    THEN [c EXCEPT !.phase = "threw", !.imageBlob = image]
    ELSE [c EXCEPT !.phase = "postroll", !.imageBlob = image,
                   !.rec = mediaRecorder,
                   !.deadline = now + config.postBufferSeconds * 1000,
                   !.registeredAt = Len(chunkLog)]

(* Faulty variant, for comparison: no image, no clip                         *)
AfterScreenshotAborting(c, blob) ==
    IF blob THEN BeginPostRoll(c, blob) ELSE [c EXCEPT !.phase = "threw"]

(* imageBlob = await captureScreenshot(videoElement) || undefined (131-133), *)
(* and on to the post-roll: blob is FALSE for a null result                  *)
AfterScreenshot(c, blob) == BeginPostRoll(c, blob)

(* captureEvent(type, confidence, deviceId, videoElement?) up to its first   *)
(* suspension.  screenshot "none": no videoElement; "null": captureScreenshot*)
(* resolves null at once (readyState < 2, no 2d context), and the await ends *)
(* before any other task runs; "encode": canvas.toBlob is under way and the  *)
(* call is suspended until its callback (ScreenshotDone).                    *)
(* What the call does to the recorder:                                       *)
CaptureEventCall(type, confidence, screenshot) ==
    /\ Len(recorders) + Len(captures) < MaxRecorderCalls
    /\ LET c == [type |-> type, confidence |-> confidence, deviceId |-> DeviceId,
                 timestamp |-> now, screenshot |-> screenshot,
                 preBufferClips |-> preBuffer, postBufferChunks |-> <<>>,
                 imageBlob |-> FALSE, phase |-> "null", rec |-> 0, deadline |-> 0,
                 triggeredAt |-> Len(chunkLog), registeredAt |-> 0, firedAt |-> 0,
                 stopped |-> "no"]
       IN captures' = Append(captures,
             IF NotBuffering THEN c
             ELSE IF screenshot = "encode" THEN [c EXCEPT !.phase = "screenshot"]
             ELSE AfterScreenshot(c, FALSE))
    /\ UNCHANGED <<isBuffering, mediaRecorder, preBuffer, recorders, db, chunkLog>>

(* captureEvent called on its own *)
CaptureEvent(type, confidence, screenshot) ==
    /\ CaptureEventCall(type, confidence, screenshot)
    /\ UNCHANGED emVars
    /\ UNCHANGED syncVars
    /\ UNCHANGED extVars

(* canvas.toBlob's callback: the blob, or null when encoding fails *)
ScreenshotDone(i, blob) ==
    /\ i \in DOMAIN captures
    /\ captures[i].phase = "screenshot"
    /\ captures' = [captures EXCEPT ![i] = AfterScreenshot(@, blob)]
    /\ UNCHANGED <<isBuffering, mediaRecorder, preBuffer, recorders, db, chunkLog>>
    /\ UNCHANGED emVars
    /\ UNCHANGED syncVars
    /\ UNCHANGED extVars

(* The setTimeout callback (145-152).  With no recorder at hand              *)
(* this.mediaRecorder!.removeEventListener throws inside the timer task: the *)
(* promise is never resolved and captureEvent stays pending ("hung").        *)
PostRollTimer(i) ==
    /\ i \in DOMAIN captures
    /\ captures[i].phase = "postroll"
    /\ now >= captures[i].deadline
    /\ captures' = [captures EXCEPT ![i] =
                       IF mediaRecorder = 0
                       THEN [@ EXCEPT !.phase = "hung"]
                       ELSE [@ EXCEPT !.phase = "saving",
                                      !.firedAt = Len(chunkLog)]]
    /\ UNCHANGED <<isBuffering, mediaRecorder, preBuffer, recorders, db, chunkLog>>
    /\ UNCHANGED emVars
    /\ UNCHANGED syncVars
    /\ UNCHANGED extVars

(* Faulty variant, for comparison: the clip is built from the pre-roll alone *)
StoredClipPreRollOnly(i, c) ==
    [id |-> i, type |-> c.type, timestamp |-> c.timestamp, confidence |-> c.confidence,
     deviceId |-> c.deviceId,
     videoBlob |-> c.preBufferClips,
     imageBlob |-> c.imageBlob, synced |-> FALSE]

(* The clip built once the timer has fired (155-164): id, event fields, the  *)
(* Blob over pre-roll and post-roll chunks, the image, synced false          *)
StoredClip(i, c) ==
    [id |-> i, type |-> c.type, timestamp |-> c.timestamp, confidence |-> c.confidence,
     deviceId |-> c.deviceId,
     videoBlob |-> c.preBufferClips \o c.postBufferChunks,
     imageBlob |-> c.imageBlob, synced |-> FALSE]

(* Faulty variant, for comparison: the failed write leaves the clip behind  *)
SaveFailedLeavesClip(store, clip) == store \cup {clip}

(* store.add failing (213-216), or no database (199-201): nothing is stored  *)
SaveFailed(store, clip) == store

(* saveClip (193-218) settling: store.add succeeds and captureEvent returns  *)
(* the clip, or the write (or opening the database) fails and it rejects.    *)
SaveClip(i, ok) ==
    /\ i \in DOMAIN captures
    /\ captures[i].phase = "saving"
    /\ IF ok
       THEN /\ db' = db \cup {StoredClip(i, captures[i])}
            /\ captures' = [captures EXCEPT ![i].phase = "done"]
       ELSE /\ db' = SaveFailed(db, StoredClip(i, captures[i]))
            /\ captures' = [captures EXCEPT ![i].phase = "threw"]
    /\ UNCHANGED <<isBuffering, mediaRecorder, preBuffer, recorders, chunkLog>>
    /\ UNCHANGED emVars
    /\ UNCHANGED syncVars
    /\ UNCHANGED extVars

(* Partial<RecordingConfig> values updateConfig is driven with: the ring     *)
(* buffer's size, shrunk and restored                                        *)
ConfigPartials ==
    {("preBufferSeconds" :> 1), ("preBufferSeconds" :> PreBufferSeconds)}

(* updateConfig(config) (336-338): the configuration is replaced, nothing    *)
(* else is touched                                                           *)
UpdateConfig(partial) ==
    /\ config' = Spread(config, partial)
    /\ UNCHANGED <<captureOf, lastStoreOp, motionVars, soundVars>>
    /\ UNCHANGED hookVars
    /\ UNCHANGED serverVars
    /\ UNCHANGED emVars
    /\ UNCHANGED syncVars
    /\ UNCHANGED recVars

RecorderTick ==
    /\ now + 1000 <= StartTime + MaxRecordingSeconds * 1000
    /\ now' = now + 1000
    /\ UNCHANGED <<settings, lastEventTime, nCalls, lastCall, awaiting, accepted, sinceReset, nResets>>
    /\ UNCHANGED syncVars
    /\ UNCHANGED recVars
    /\ UNCHANGED extVars

----------------------------------------------------------------------------

(* clipRecorder.ts: the clip store (IndexedDB 'pet-portal-clips', store      *)
(* 'clips', keyPath 'id', index 'timestamp')                                 *)

(* options?.limit ?? 50 *)
DefaultLimit == 50

(* Bounds: the clips a store under test holds, the store calls made on it *)
MaxStored == 51
MaxStoreOps == 2

(* Faulty variant, for comparison: the index walked oldest first            *)
BeforeAscending(c, d) ==
    \/ c.timestamp < d.timestamp
    \/ c.timestamp = d.timestamp /\ c.id <= d.id

(* index.openCursor(null, 'prev'): by timestamp descending, and among equal  *)
(* timestamps by primary key descending                                      *)
Before(c, d) ==
    \/ c.timestamp > d.timestamp
    \/ c.timestamp = d.timestamp /\ c.id >= d.id

RECURSIVE CursorOrder(_)
CursorOrder(store) ==
    IF store = {} THEN <<>>
    ELSE LET first == CHOOSE c \in store : \A d \in store : Before(c, d)
         IN <<first>> \o CursorOrder(store \ {first})

Limit(options) ==
    IF Has(options, "limit") THEN Get(options, "limit") ELSE DefaultLimit

(* Faulty variant, for comparison: the synced filter is not applied         *)
IncludeTypeOnly(clip, options) ==
    Has(options, "type") => clip.type = Get(options, "type")

(* include (248-254) *)
Include(clip, options) ==
    /\ Has(options, "type") => clip.type = Get(options, "type")
    /\ Has(options, "synced") => clip.synced = Get(options, "synced")

(* request.onsuccess (243-263), once per cursor position *)
RECURSIVE Cursor(_, _, _)
Cursor(rest, results, options) ==
    IF rest # <<>> /\ Len(results) < Limit(options)
    THEN Cursor(Tail(rest),
                IF Include(Head(rest), options) THEN Append(results, Head(rest))
                ELSE results,
                options)
    ELSE results

GetClipsResult(store, options) == Cursor(CursorOrder(store), <<>>, options)

(* Faulty variant, for comparison: every clip of the store is marked        *)
MarkSyncedEveryClip(store, id) ==
    IF \E c \in store : c.id = id
    THEN {[c EXCEPT !.synced = TRUE] : c \in store}
    ELSE store

(* Faulty variant, for comparison: the flag is flipped, not set             *)
MarkSyncedToggle(store, id) ==
    {IF c.id = id THEN [c EXCEPT !.synced = ~c.synced] ELSE c : c \in store}

(* store.get(id), clip.synced = true, store.put(clip) (284-295) *)
MarkSyncedStore(store, id) ==
    {IF c.id = id THEN [c EXCEPT !.synced = TRUE] ELSE c : c \in store}

(* store.delete(id) (315) *)
DeleteStore(store, id) == {c \in store : c.id # id}

(* The latest store call, and what has been marked and deleted so far;      *)
(* again notes a call that repeats the call before it, which had resolved   *)
Repeats(op, id) ==
    /\ lastStoreOp.op = op
    /\ lastStoreOp.id = id
    /\ lastStoreOp.result = "resolved"

NoStoreOp == [n |-> 0, op |-> "none", marked |-> {}, deleted |-> {}]

(* getClips(options): ok is FALSE when the database cannot be opened or the  *)
(* cursor request fails, and the call rejects.                               *)
GetClips(options, ok) ==
    /\ lastStoreOp.n < MaxStoreOps
    /\ lastStoreOp' = [n |-> lastStoreOp.n + 1, op |-> "getClips", options |-> options,
                       result |-> IF ok THEN <<GetClipsResult(db, options)>> ELSE <<>>,
                       marked |-> lastStoreOp.marked, deleted |-> lastStoreOp.deleted]
    /\ UNCHANGED <<config, captureOf, motionVars, soundVars>>
    /\ UNCHANGED hookVars
    /\ UNCHANGED serverVars
    /\ UNCHANGED emVars
    /\ UNCHANGED syncVars
    /\ UNCHANGED recVars

(* markSynced(id): with ok FALSE a request fails, the transaction leaves the *)
(* store as it was and the call rejects.                                     *)
MarkSynced(id, ok) ==
    /\ lastStoreOp.n < MaxStoreOps
    /\ db' = IF ok THEN MarkSyncedStore(db, id) ELSE db
    /\ lastStoreOp' = [n |-> lastStoreOp.n + 1, op |-> "markSynced", id |-> id,
                       again |-> Repeats("markSynced", id),
                       result |-> IF ok THEN "resolved" ELSE "rejected",
                       marked |-> IF ok THEN lastStoreOp.marked \cup {id}
                                  ELSE lastStoreOp.marked,
                       deleted |-> lastStoreOp.deleted]
    /\ UNCHANGED <<isBuffering, mediaRecorder, preBuffer, recorders, captures, chunkLog>>
    /\ UNCHANGED <<config, captureOf, motionVars, soundVars>>
    /\ UNCHANGED hookVars
    /\ UNCHANGED serverVars
    /\ UNCHANGED emVars
    /\ UNCHANGED syncVars

(* deleteClip(id) *)
DeleteClip(id, ok) ==
    /\ lastStoreOp.n < MaxStoreOps
    /\ db' = IF ok THEN DeleteStore(db, id) ELSE db
    /\ lastStoreOp' = [n |-> lastStoreOp.n + 1, op |-> "deleteClip", id |-> id,
                       again |-> Repeats("deleteClip", id),
                       result |-> IF ok THEN "resolved" ELSE "rejected",
                       marked |-> lastStoreOp.marked,
                       deleted |-> IF ok THEN lastStoreOp.deleted \cup {id}
                                   ELSE lastStoreOp.deleted]
    /\ UNCHANGED <<isBuffering, mediaRecorder, preBuffer, recorders, captures, chunkLog>>
    /\ UNCHANGED <<config, captureOf, motionVars, soundVars>>
    /\ UNCHANGED hookVars
    /\ UNCHANGED serverVars
    /\ UNCHANGED emVars
    /\ UNCHANGED syncVars

(* The k-th clip saved into a store under test, as saveClip leaves it.  Two  *)
(* consecutive clips share a timestamp (two triggers in one millisecond);    *)
(* ids, random in the code, are numbered so that the order of the ids is not *)
(* the order of saving.                                                      *)
IdOrder(k) == IF k % 2 = 0 THEN k + 1 ELSE k - 1

SavedClip(k) ==
    [id |-> IdOrder(k), type |-> IF k % 3 = 0 THEN "sound" ELSE "motion",
     timestamp |-> StartTime + 1000 * (k \div 2), confidence |-> 900,
     deviceId |-> DeviceId, videoBlob |-> <<k>>, imageBlob |-> FALSE, synced |-> FALSE]

SavedStore(n) == {SavedClip(k) : k \in 1..n}

StoreSizes == {0, 1, 2, 3, MaxStored - 1, MaxStored}

UnknownId == MaxStored + 10

StoreIds == {IdOrder(2), IdOrder(MaxStored), UnknownId}

GetClipsOptions ==
    {Spread(Spread(t, y), l) :
        t \in {EmptyObject, ("type" :> "motion"), ("type" :> "sound")},
        y \in {EmptyObject, ("synced" :> TRUE), ("synced" :> FALSE)},
        l \in {EmptyObject, ("limit" :> 0), ("limit" :> 1), ("limit" :> 2)}}

----------------------------------------------------------------------------

InitEM ==
    /\ now = StartTime
    /\ settings = DEFAULT_SETTINGS
    /\ lastEventTime = [t \in EventTypes |-> 0]
    /\ nCalls = 0
    /\ lastCall = NoCall
    /\ awaiting = {}
    /\ accepted = [t \in EventTypes |-> {}]
    /\ sinceReset = [t \in EventTypes |-> {}]
    /\ nResets = 0

(* The server with empty PairingCode and Device tables *)
InitServer ==
    /\ serverNow = StartTime
    /\ pairingCodes = <<>>
    /\ devices = <<>>
    /\ requests = <<>>

(* useDetection as first rendered: enabled (its default), no video stream   *)
(* yet, the services created once by the initialization effect (121-136)    *)
InitHook ==
    /\ enabled = TRUE
    /\ videoStream = FALSE
    /\ services = 1

InitSync ==
    /\ lastOp = NoOp
    /\ toCamera = <<>>
    /\ toViewer = <<>>
    /\ vSettings = DEFAULT_SETTINGS
    /\ vFeed = <<>>
    /\ vLast = [ops |-> 0, peerSends |-> 0, handled |-> <<>>, fed |-> FALSE, merged |-> FALSE]
    /\ captureOf = <<>>
    /\ lastStoreOp = NoStoreOp
    /\ InitMotion
    /\ InitSound
    /\ InitHook
    /\ InitServer

(* The EventManager driven without a room: detection, cooldown, local settings *)
Init ==
    /\ InitEM
    /\ InitSync
    /\ InitRecorder
    /\ room = FALSE

Next ==
    \/ \E type \in EventTypes, confidence \in Confidences : HandleDetection(type, confidence)
    \/ \E c \in awaiting : OnEventFulfilled(c, FALSE)
    \/ \E c \in awaiting : OnEventRejected(c)
    \/ \E types \in {{"motion"}, {"sound"}, EventTypes} : ResetCooldown(types)
    \/ \E step \in TickSteps : Tick(step)
    \/ \E partial \in GatePartials : UpdateSettings(partial, FALSE)

vars == <<now, settings, lastEventTime, nCalls, lastCall, awaiting, accepted, sinceReset, nResets,
          lastOp, room, toCamera, toViewer, vSettings, vFeed, vLast,
          isBuffering, mediaRecorder, preBuffer, recorders, captures, db, chunkLog,
          config, captureOf, lastStoreOp,
          previousFrame, motionConfig, lastMotion,
          audioContext, analyser, source, dataArray, soundConfig, isConnected,
          contexts, analysers, sources, connects, lastSound,
          enabled, videoStream, services,
          serverNow, pairingCodes, devices, requests>>

Spec == Init /\ [][Next]_vars

(* The camera in a room with a viewer and other peers: the settings-sync protocol *)
InitRoom ==
    /\ InitEM
    /\ InitSync
    /\ InitRecorder
    /\ room = TRUE

NextRoom ==
    \/ HandleDetection("motion", 900)
    \/ \E c \in awaiting, delivered \in BOOLEAN : OnEventFulfilled(c, delivered)
    \/ \E c \in awaiting : OnEventRejected(c)
    \/ \E partial \in Partials, delivered \in BOOLEAN : UpdateSettings(partial, delivered)
    \/ HandleData
    \/ \E key \in SettingsFields, delivered \in BOOLEAN :
          \E value \in FieldValues(key) : ViewerUpdateSetting(key, value, delivered)
    \/ \E pk \in PeerPackets : PeerSend(pk.from, pk.topic, pk.payload)
    \/ ViewerHandleData

SpecRoom == InitRoom /\ [][NextRoom]_vars

CaptureInputs ==
    {<<"motion", 900, "none">>, <<"sound", 500, "encode">>, <<"sound", 900, "null">>}

(* The recorder on its own: buffering sessions, chunks, captures, the store *)
NextRecorder ==
    \/ \E outcome \in {"ok", "unsupported", "startThrows"} : StartBuffering(outcome)
    \/ StopBuffering
    \/ \E r \in DOMAIN recorders : DataAvailable(r)
    \/ \E r \in DOMAIN recorders, hasData \in BOOLEAN : FinalDataAvailable(r, hasData)
    \/ \E in \in CaptureInputs : CaptureEvent(in[1], in[2], in[3])
    \/ \E i \in DOMAIN captures, blob \in BOOLEAN : ScreenshotDone(i, blob)
    \/ \E i \in DOMAIN captures : PostRollTimer(i)
    \/ \E i \in DOMAIN captures, ok \in BOOLEAN : SaveClip(i, ok)
    \/ \E partial \in ConfigPartials : UpdateConfig(partial)
    \/ RecorderTick

SpecRecorder == Init /\ [][NextRecorder]_vars

(* Time passes while a post-roll timer (setTimeout, 145-152) is still to     *)
(* come due: the clock moves a second towards the latest deadline            *)
TimerTick ==
    /\ \E i \in DOMAIN captures :
          captures[i].phase = "postroll" /\ now < captures[i].deadline
    /\ now' = now + 1000
    /\ UNCHANGED <<settings, lastEventTime, nCalls, lastCall, awaiting, accepted, sinceReset, nResets>>
    /\ UNCHANGED syncVars
    /\ UNCHANGED recVars
    /\ UNCHANGED extVars

(* The recorder with a store that accepts every write *)
NextRecorderFair ==
    \/ \E outcome \in {"ok", "unsupported", "startThrows"} : StartBuffering(outcome)
    \/ StopBuffering
    \/ \E r \in DOMAIN recorders : DataAvailable(r)
    \/ \E r \in DOMAIN recorders, hasData \in BOOLEAN : FinalDataAvailable(r, hasData)
    \/ \E in \in CaptureInputs : CaptureEvent(in[1], in[2], in[3])
    \/ \E i \in DOMAIN captures, blob \in BOOLEAN : ScreenshotDone(i, blob)
    \/ \E i \in DOMAIN captures : PostRollTimer(i)
    \/ \E i \in DOMAIN captures : SaveClip(i, TRUE)
    \/ TimerTick

(* Fair timers and callbacks: time passes while a timer is pending, a timer  *)
(* that is due fires, canvas.toBlob calls back, and the store's add request  *)
(* settles                                                                   *)
RecorderFairness ==
    /\ WF_vars(TimerTick)
    /\ \A i \in 1..MaxRecorderCalls :
          /\ WF_vars(PostRollTimer(i))
          /\ WF_vars(\E blob \in BOOLEAN : ScreenshotDone(i, blob))
          /\ WF_vars(SaveClip(i, TRUE))

SpecRecorderFair == Init /\ [][NextRecorderFair]_vars /\ RecorderFairness

(* useDetection: the EventManager's onEvent callback is handleEvent (62-101, *)
(* 127-130).  An accepted handleDetection call runs handleEvent, and with it *)
(* captureEvent, up to captureEvent's first suspension within the same task. *)
DetectAndCapture(type, confidence, screenshot) ==
    /\ HandleDetectionCall(type, confidence)
    /\ IF Rejects(settings, lastEventTime, type, confidence, now)
       THEN /\ UNCHANGED recVars
            /\ UNCHANGED captureOf
       ELSE /\ CaptureEventCall(type, confidence, screenshot)
            /\ captureOf' = captureOf @@ (nCalls + 1 :> Len(captures) + 1)
    /\ UNCHANGED syncVars
    /\ UNCHANGED <<config, lastStoreOp, motionVars, soundVars>>
    /\ UNCHANGED hookVars
    /\ UNCHANGED serverVars

(* The captureEvent call awaited by the handleEvent of call c stands in one  *)
(* of the given phases                                                       *)
CaptureSettled(c, phases) ==
    /\ c.n \in DOMAIN captureOf
    /\ captures[captureOf[c.n]].phase \in phases

(* handleEvent after its await (81-100): captureEvent returned null or the   *)
(* clip; the event is published and handleDetection returns true.            *)
HandleEventContinues(c, delivered) ==
    /\ CaptureSettled(c, {"null", "done"})
    /\ OnEventFulfilled(c, delivered)

(* captureEvent rejected: the await at line 74 throws, handleEvent and with  *)
(* it handleDetection reject; lines 81-100 are not run.                      *)
HandleEventThrows(c) ==
    /\ CaptureSettled(c, {"threw"})
    /\ OnEventRejected(c)

(* The settings change useDetection's updateSettings is driven with here *)
EnginePartials == {("cooldownSeconds" :> 10)}

DetectionInputs ==
    {<<"motion", 900, "none">>, <<"sound", 900, "encode">>, <<"motion", 300, "none">>}

(* The engine as useDetection wires it, in a room with a viewer *)
NextEngine ==
    \/ \E in \in DetectionInputs : DetectAndCapture(in[1], in[2], in[3])
    \/ \E c \in awaiting, delivered \in BOOLEAN : HandleEventContinues(c, delivered)
    \/ \E c \in awaiting : HandleEventThrows(c)
    \/ \E partial \in EnginePartials, delivered \in BOOLEAN : UpdateSettings(partial, delivered)
    \/ ViewerHandleData
    \/ \E outcome \in {"ok", "unsupported", "startThrows"} : StartBuffering(outcome)
    \/ StopBuffering
    \/ \E r \in DOMAIN recorders : DataAvailable(r)
    \/ \E r \in DOMAIN recorders, hasData \in BOOLEAN : FinalDataAvailable(r, hasData)
    \/ \E i \in DOMAIN captures, blob \in BOOLEAN : ScreenshotDone(i, blob)
    \/ \E i \in DOMAIN captures : PostRollTimer(i)
    \/ \E i \in DOMAIN captures, ok \in BOOLEAN : SaveClip(i, ok)
    \/ RecorderTick

SpecEngine == InitRoom /\ [][NextEngine]_vars

(* The clip store on its own: a store holding the clips of n successful      *)
(* captures (it outlives the page that saved them) and the calls on it       *)
InitStore ==
    /\ InitEM
    /\ InitSync
    /\ isBuffering = FALSE
    /\ mediaRecorder = 0
    /\ preBuffer = <<>>
    /\ recorders = <<>>
    /\ captures = <<>>
    /\ chunkLog = <<>>
    /\ config = [preBufferSeconds |-> PreBufferSeconds,
                 postBufferSeconds |-> PostBufferSeconds]
    /\ room = FALSE
    /\ \E n \in StoreSizes : db = SavedStore(n)

NextStore ==
    \/ \E options \in GetClipsOptions, ok \in BOOLEAN : GetClips(options, ok)
    \/ \E id \in StoreIds, ok \in BOOLEAN : MarkSynced(id, ok)
    \/ \E id \in StoreIds, ok \in BOOLEAN : DeleteClip(id, ok)

SpecStore == InitStore /\ [][NextStore]_vars

(* The motion detector on its own: frames analysed, configuration changes *)
NextMotion ==
    \/ \E ready \in BOOLEAN :
          \E frame \in Frames(motionConfig.width, motionConfig.height) :
             MotionAnalyze(ready, frame)
    \/ \E partial \in MotionPartials : MotionUpdateConfig(partial)
    \/ MotionReset

SpecMotion == Init /\ [][NextMotion]_vars

(* The sound detector on its own: connect calls, which may overlap,          *)
(* disconnect and analyze                                                    *)
NextSound ==
    \/ \E outcome \in {"noContext", "running", "suspended"}, sourceOk \in BOOLEAN :
          SoundConnect(outcome, sourceOk)
    \/ \E i \in DOMAIN connects, ok \in BOOLEAN, sourceOk \in BOOLEAN :
          ResumeSettled(i, ok, sourceOk)
    \/ SoundDisconnect
    \/ \E data \in Samples : SoundAnalyze(data)
    \/ \E partial \in SoundPartials : SoundUpdateConfig(partial)

SpecSound == Init /\ [][NextSound]_vars

(* The sensitivities the threshold functions are applied to: 0 to 1 in       *)
(* SensitivitySteps steps                                                    *)
SensitivitySteps == 100

Sensitivities == {(1000 * k) \div SensitivitySteps : k \in 0..SensitivitySteps}

(* The threshold functions as useDetection applies them: a sensitivity set   *)
(* through updateSettings becomes the threshold of its detector              *)
NextThresholds ==
    \/ \E s \in Sensitivities : UpdateSettings(("motionSensitivity" :> s), FALSE)
    \/ \E s \in Sensitivities : UpdateSettings(("soundSensitivity" :> s), FALSE)

SpecThresholds == Init /\ [][NextThresholds]_vars

(* useDetection's effects.  React runs the cleanups of the effects whose     *)
(* dependencies changed, and then those effects, within one commit.          *)

(* The services may be created MaxServices times *)
MaxServices == 2

(* The recorders once stopBuffering() (322-330) has run on the ClipRecorder  *)
(* in use                                                                    *)
RecordersStopped ==
    IF mediaRecorder # 0 /\ isBuffering
    THEN [recorders EXCEPT ![mediaRecorder] = "stopping"]
    ELSE recorders

(* The buffering effect (152-162), re-run because enabled or videoStream     *)
(* changed: its cleanup stops the buffering, and with detection enabled and  *)
(* a video stream the effect starts it again on the ClipRecorder in use, a   *)
(* MediaRecorder that starts being at hand.                                  *)
BufferingEffect(en, vs) ==
    /\ <<en, vs>> # <<enabled, videoStream>>
    /\ Len(recorders) + Len(captures) < MaxRecorderCalls
    /\ enabled' = en
    /\ videoStream' = vs
    /\ preBuffer' = IF mediaRecorder # 0 /\ isBuffering THEN <<>> ELSE preBuffer
    /\ IF en /\ vs
       THEN /\ recorders' = Append(RecordersStopped, "recording")
            /\ mediaRecorder' = Len(recorders) + 1
            /\ isBuffering' = TRUE
       ELSE /\ recorders' = RecordersStopped
            /\ mediaRecorder' = IF isBuffering THEN 0 ELSE mediaRecorder
            /\ isBuffering' = FALSE
    /\ UNCHANGED <<captures, db, chunkLog>>
    /\ UNCHANGED <<config, captureOf, lastStoreOp, motionVars, soundVars, services>>
    /\ UNCHANGED serverVars
    /\ UNCHANGED emVars
    /\ UNCHANGED syncVars

(* new EventManager(deviceId, callbacks) (eventManager.ts 43-56): default    *)
(* settings, no event yet                                                    *)
NewEventManager == <<DEFAULT_SETTINGS, [t \in EventTypes |-> 0]>>

(* The initialization effect (121-136), re-run because handleEvent was       *)
(* re-created - its dependencies room or videoElement changed (101) - while  *)
(* enabled and videoStream stayed as they were, so that the buffering effect *)
(* is not re-run.  The cleanup disconnects the SoundDetector and stops the   *)
(* ClipRecorder in use; the effect then puts a new MotionDetector,           *)
(* SoundDetector, ClipRecorder and EventManager in the refs.                 *)
RecreateServices ==
    /\ services < MaxServices
    /\ services' = services + 1
    /\ UNCHANGED <<enabled, videoStream>>
    /\ recorders' = RecordersStopped
    /\ mediaRecorder' = 0
    /\ preBuffer' = <<>>
    /\ isBuffering' = FALSE
    /\ config' = [preBufferSeconds |-> PreBufferSeconds,
                  postBufferSeconds |-> PostBufferSeconds]
    /\ UNCHANGED <<captures, db, chunkLog>>
    /\ settings' = NewEventManager[1]
    /\ lastEventTime' = NewEventManager[2]
    /\ UNCHANGED <<now, nCalls, lastCall, awaiting, accepted, sinceReset, nResets>>
    /\ sources' = IF source # 0 THEN [sources EXCEPT ![source].analyser = 0] ELSE sources
    /\ contexts' = IF audioContext # 0
                   THEN [contexts EXCEPT ![audioContext] = "closed"]
                   ELSE contexts
    /\ audioContext' = 0
    /\ analyser' = 0
    /\ source' = 0
    /\ dataArray' = FALSE
    /\ isConnected' = FALSE
    /\ soundConfig' = SoundDefaultConfig
    /\ lastSound' = [op |-> "disconnect", disconnected |-> TRUE,
                     disconnects |-> lastSound.disconnects + 1]
    /\ UNCHANGED <<analysers, connects>>
    /\ previousFrame' = <<>>
    /\ motionConfig' = MotionDefaultConfig
    /\ lastMotion' = [op |-> "none"]
    /\ UNCHANGED <<captureOf, lastStoreOp>>
    /\ UNCHANGED serverVars
    /\ UNCHANGED syncVars

(* A confidence as handleDetection is given it, in thousandths; the minimum  *)
(* confidences it is compared with are whole thousandths for the             *)
(* sensitivities set here                                                    *)
Thousandths(fraction) == (fraction[1] * 1000) \div fraction[2]

(* One pass of runDetection (199-231) over the motion branch, the interval   *)
(* having elapsed: with motion detection enabled and the video element ready *)
(* the frame is analysed, and a result with hasMotion is handed to           *)
(* handleDetection with the result's confidence.  The call is not awaited;   *)
(* when accepted its onEvent callback runs handleEvent up to the await of    *)
(* captureEvent, with the video element for the screenshot.                  *)
MotionTick(frame) ==
    /\ settings.motionEnabled
    /\ LET result == IF previousFrame = <<>>
                     THEN NoMotion
                     ELSE Compare(frame, previousFrame[1], motionConfig)
           confidence == Thousandths(result.confidence)
       IN /\ previousFrame' = <<frame>>
          /\ lastMotion' = [op |-> "analyze", ready |-> TRUE, result |-> result]
          /\ IF result.hasMotion
             THEN /\ HandleDetectionCall("motion", confidence)
                  /\ IF Rejects(settings, lastEventTime, "motion", confidence, now)
                     THEN /\ UNCHANGED recVars
                          /\ UNCHANGED captureOf
                     ELSE /\ CaptureEventCall("motion", confidence, "encode")
                          /\ captureOf' = captureOf @@ (nCalls + 1 :> Len(captures) + 1)
             ELSE /\ UNCHANGED emVars
                  /\ UNCHANGED recVars
                  /\ UNCHANGED captureOf
    /\ UNCHANGED motionConfig
    /\ UNCHANGED syncVars
    /\ UNCHANGED <<config, lastStoreOp, soundVars>>
    /\ UNCHANGED hookVars
    /\ UNCHANGED serverVars

(* The pictures the loop is run over: the first k pixels lit, for every k,   *)
(* and an evenly grey picture whose difference from black is exactly the     *)
(* pixel threshold                                                           *)
TickFrames(w, h) ==
    {[i \in 1..(w * h) |-> IF i <= k THEN <<0, 50, 51, 255>> ELSE <<0, 0, 0, 255>>] :
        k \in 0..(w * h)}
    \cup {[i \in 1..(w * h) |-> <<25, 25, 25, 255>>]}

(* The settings changes the detection loop is run under *)
TickPartials ==
    {("motionSensitivity" :> 0), ("motionSensitivity" :> 1000),
     ("motionEnabled" :> FALSE), ("cooldownSeconds" :> 10)}

(* The detection loop over frames, with settings changing and time passing *)
NextTick ==
    \/ \E frame \in TickFrames(motionConfig.width, motionConfig.height) : MotionTick(frame)
    \/ \E partial \in TickPartials : UpdateSettings(partial, FALSE)
    \/ \E step \in TickSteps : Tick(step)

SpecTick == Init /\ [][NextTick]_vars

(* The hook with its options changing, its services re-created, detections   *)
(* handed to the EventManager in use, and settings changed locally           *)
NextHook ==
    \/ \E en \in BOOLEAN, vs \in BOOLEAN : BufferingEffect(en, vs)
    \/ RecreateServices
    \/ \E type \in EventTypes : HandleDetection(type, 900)
    \/ \E partial \in GatePartials : UpdateSettings(partial, FALSE)
    \/ \E step \in TickSteps : Tick(step)

SpecHook == Init /\ [][NextHook]_vars

----------------------------------------------------------------------------
(* server/src/routes/pairing.ts *)

MaxCodes == 2
MaxRequests == 3
MaxServerMinutes == 3

(* expiresAt = Date.now() + 2 * 60 * 1000 (36) *)
PairingTtlMs == 2 * 60 * 1000

(* The codes crypto.randomBytes(4).toString('hex').toUpperCase() comes up    *)
(* with, in the order of the /generate requests, and the codes the cameras   *)
(* submit: a code as shown, in lower case as typed, and one never generated  *)
GeneratedCodes == <<"AB12CD34", "0F9E8D7C">>
SubmittedCodes == {"AB12CD34", "ab12cd34", "0F9E8D7C", "FFFFFFFF"}

(* code.toUpperCase() (90) on the submitted codes *)
ToUpperCase(code) == IF code = "ab12cd34" THEN "AB12CD34" ELSE code

(* POST /generate (21-80) for a room of the authenticated user: a row with a *)
(* fresh code that expires in two minutes                                    *)
GeneratePairing ==
    /\ Len(pairingCodes) < MaxCodes
    /\ pairingCodes' = Append(pairingCodes,
                              [id |-> Len(pairingCodes) + 1,
                               code |-> GeneratedCodes[Len(pairingCodes) + 1],
                               used |-> FALSE,
                               expiresAt |-> serverNow + PairingTtlMs])
    /\ UNCHANGED <<serverNow, devices, requests>>
    /\ UNCHANGED emVars
    /\ UNCHANGED syncVars
    /\ UNCHANGED recVars
    /\ UNCHANGED <<config, captureOf, lastStoreOp, motionVars, soundVars, hookVars>>

(* The rows findFirst's where clause (89-93) selects *)
ValidPairingCodes(code) ==
    {k \in DOMAIN pairingCodes :
        /\ pairingCodes[k].code = ToUpperCase(code)
        /\ pairingCodes[k].used = FALSE
        /\ pairingCodes[k].expiresAt > serverNow}

(* POST /complete (83-147) up to the end of its first await: findFirst has   *)
(* returned; with no row the request is answered 400 (99-101).               *)
CompleteFind(code) ==
    /\ Len(requests) < MaxRequests
    /\ requests' = Append(requests,
          IF ValidPairingCodes(code) = {}
          THEN [code |-> code, phase |-> "responded", status |-> 400, pairingCode |-> 0]
          ELSE [code |-> code, phase |-> "found", status |-> 0,
                pairingCode |-> CHOOSE k \in ValidPairingCodes(code) : TRUE])
    /\ UNCHANGED <<serverNow, pairingCodes, devices>>
    /\ UNCHANGED emVars
    /\ UNCHANGED syncVars
    /\ UNCHANGED recVars
    /\ UNCHANGED <<config, captureOf, lastStoreOp, motionVars, soundVars, hookVars>>

(* prisma.pairingCode.update({ where: { id }, data: { used: true } })        *)
(* (104-107) of request r                                                    *)
CompleteMarkUsed(r) ==
    /\ r \in DOMAIN requests
    /\ requests[r].phase = "found"
    /\ pairingCodes' = [pairingCodes EXCEPT ![requests[r].pairingCode].used = TRUE]
    /\ requests' = [requests EXCEPT ![r].phase = "marked"]
    /\ UNCHANGED <<serverNow, devices>>
    /\ UNCHANGED emVars
    /\ UNCHANGED syncVars
    /\ UNCHANGED recVars
    /\ UNCHANGED <<config, captureOf, lastStoreOp, motionVars, soundVars, hookVars>>

(* prisma.device.create (112-122) of request r *)
CompleteCreateDevice(r) ==
    /\ r \in DOMAIN requests
    /\ requests[r].phase = "marked"
    /\ devices' = Append(devices, [id |-> Len(devices) + 1,
                                    pairingCode |-> requests[r].pairingCode,
                                    request |-> r])
    /\ requests' = [requests EXCEPT ![r].phase = "created"]
    /\ UNCHANGED <<serverNow, pairingCodes>>
    /\ UNCHANGED emVars
    /\ UNCHANGED syncVars
    /\ UNCHANGED recVars
    /\ UNCHANGED <<config, captureOf, lastStoreOp, motionVars, soundVars, hookVars>>

(* The token is generated and request r answered with success (125-139) *)
CompleteRespond(r) ==
    /\ r \in DOMAIN requests
    /\ requests[r].phase = "created"
    /\ requests' = [requests EXCEPT ![r].phase = "responded", ![r].status = 200]
    /\ UNCHANGED <<serverNow, pairingCodes, devices>>
    /\ UNCHANGED emVars
    /\ UNCHANGED syncVars
    /\ UNCHANGED recVars
    /\ UNCHANGED <<config, captureOf, lastStoreOp, motionVars, soundVars, hookVars>>

(* A minute passes on the server *)
ServerTick ==
    /\ serverNow + 60000 <= StartTime + MaxServerMinutes * 60000
    /\ serverNow' = serverNow + 60000
    /\ UNCHANGED <<pairingCodes, devices, requests>>
    /\ UNCHANGED emVars
    /\ UNCHANGED syncVars
    /\ UNCHANGED recVars
    /\ UNCHANGED <<config, captureOf, lastStoreOp, motionVars, soundVars, hookVars>>

(* The pairing routes serving requests concurrently: each await of a handler *)
(* is a point where another request's handler may run                        *)
NextPairing ==
    \/ GeneratePairing
    \/ \E code \in SubmittedCodes : CompleteFind(code)
    \/ \E r \in DOMAIN requests : CompleteMarkUsed(r)
    \/ \E r \in DOMAIN requests : CompleteCreateDevice(r)
    \/ \E r \in DOMAIN requests : CompleteRespond(r)
    \/ ServerTick

SpecPairing == Init /\ [][NextPairing]_vars

(* The two components that open a media source, side by side: the recorder's *)
(* buffering sessions with captureEvent calls, and the sound detector's      *)
(* connect calls, which may overlap, with analyze                            *)
NextDevices ==
    \/ \E outcome \in {"ok", "unsupported", "startThrows"} : StartBuffering(outcome)
    \/ StopBuffering
    \/ \E in \in CaptureInputs : CaptureEvent(in[1], in[2], in[3])
    \/ \E outcome \in {"noContext", "running", "suspended"}, sourceOk \in BOOLEAN :
          SoundConnect(outcome, sourceOk)
    \/ \E i \in DOMAIN connects, ok \in BOOLEAN, sourceOk \in BOOLEAN :
          ResumeSettled(i, ok, sourceOk)
    \/ \E data \in Samples : SoundAnalyze(data)

SpecDevices == Init /\ [][NextDevices]_vars

----------------------------------------------------------------------------
(* C1: handleDetection(type, confidence) accepts - the event callback is     *)
(* invoked exactly once with [type, timestamp = now, confidence, deviceId]   *)
(* and the call's result is true once the callback has completed - if and    *)
(* only if the type is enabled, now - lastEventTime[type] >= cooldownSeconds *)
(* * 1000 and confidence >= 0.6 - sensitivity(type) * 0.4; otherwise it      *)
(* returns false and invokes no callback.  With cooldownSeconds = 30 and     *)
(* motionSensitivity = 0.5: 0.3 is rejected, 0.5 with no earlier event is    *)
(* accepted, 0.9 ten seconds later is rejected, 0.5 after 31 s is accepted.  *)

C1_Sensitivity(s, type) ==
    IF type = "motion" THEN s.motionSensitivity ELSE s.soundSensitivity

C1_ShouldAccept(s, last, type, confidence, t) ==
    /\ (type = "motion" => s.motionEnabled) /\ (type = "sound" => s.soundEnabled)
    /\ t - last[type] >= s.cooldownSeconds * 1000
    /\ confidence * 1000 >= 600 * 1000 - C1_Sensitivity(s, type) * 400

C1_Scenario(s, last, c, t) ==
    (s.cooldownSeconds = 30 /\ s.motionSensitivity = 500 /\ s.motionEnabled /\ c.type = "motion")
    => /\ c.confidence = 300 => c.result = "false"
       /\ (c.confidence = 500 /\ last["motion"] = 0) => c.result = "pending"
       /\ (c.confidence = 900 /\ last["motion"] # 0 /\ t - last["motion"] = 10000)
             => c.result = "false"
       /\ (c.confidence = 500 /\ last["motion"] # 0 /\ t - last["motion"] = 31000)
             => c.result = "pending"

C1_Step ==
    /\ lastCall'.n # lastCall.n =>
          LET c == lastCall'
              event == [type |-> c.type, timestamp |-> now, confidence |-> c.confidence,
                        deviceId |-> DeviceId]
          IN /\ IF C1_ShouldAccept(settings, lastEventTime, c.type, c.confidence, now)
                THEN /\ c.result = "pending"
                     /\ c.callbacks = <<event>>
                     /\ awaiting' = awaiting \cup {[n |-> c.n, event |-> event]}
                ELSE /\ c.result = "false"
                     /\ c.callbacks = <<>>
                     /\ awaiting' = awaiting
             /\ C1_Scenario(settings, lastEventTime, c, now)
    /\ (lastCall'.n = lastCall.n /\ lastCall' # lastCall) =>
          /\ lastCall.result = "pending"
          /\ lastCall'.result \in {"true", "threw"}
          /\ lastCall'.callbacks = lastCall.callbacks
          /\ \E a \in awaiting : a.n = lastCall.n /\ awaiting' = awaiting \ {a}

C2_AcceptStep(type) ==
    /\ lastCall'.n # lastCall.n
    /\ lastCall'.type = type
    /\ lastCall'.result = "pending"

----------------------------------------------------------------------------
(* Claims on the settings-sync protocol, checked under SpecRoom *)

C_IsViewer(from) ==
    /\ Len(from) = 1
    /\ Len(from[1]) >= 7
    /\ \A i \in 1..7 : from[1][i] = viewer_[i]

C_Handled == lastOp'.n # lastOp.n /\ lastOp'.op = "handleData"

(* C6, as claimed: a message {messageType: 'settings', ...fields} published  *)
(* by a viewer on the detection topic is merged when it is delivered: every  *)
(* field present has the message's value in getSettings(), and               *)
(* onSettingsReceived is invoked with the merged settings.                   *)

C6_IsViewerWireMessage(pk) ==
    /\ C_IsViewer(pk.from)
    /\ pk.topic = "detection"
    /\ pk.payload.ok
    /\ "messageType" \in DOMAIN pk.payload.json
    /\ pk.payload.json["messageType"] = "settings"

C6_ViewerSettingsMerged ==
    (lastOp.op = "handleData" /\ C6_IsViewerWireMessage(lastOp.packet))
    => /\ \A f \in SettingsFields \cap DOMAIN lastOp.packet.payload.json :
             settings[f] = lastOp.packet.payload.json[f]
       /\ lastOp.received = <<settings>>

(* C7, as claimed: every message the camera publishes carries the            *)
(* messageType discriminator with flat fields - 'event' with type,           *)
(* timestamp, deviceId, confidence, or 'settings' with the settings fields - *)
(* and the viewer-side consumers process every one of them.                  *)

C7_WireShape(json) ==
    /\ "messageType" \in DOMAIN json
    /\ \/ /\ json["messageType"] = "event"
          /\ {"type", "timestamp", "deviceId", "confidence"} \subseteq DOMAIN json
       \/ /\ json["messageType"] = "settings"
          /\ SettingsFields \subseteq DOMAIN json

C7_OutboundTaggedAndProcessed ==
    /\ \A i \in 1..Len(toViewer) :
          toViewer[i].payload.ok /\ C7_WireShape(toViewer[i].payload.json)
    /\ vLast.handled # <<>> => (vLast.fed \/ vLast.merged)

(* C8: a settings message from a peer whose identity does not match the      *)
(* viewer convention (another camera, an unknown or absent participant), or  *)
(* on another topic, never changes the camera's settings.                    *)

C8_OnlyViewersChangeSettings ==
    [][(C_Handled /\ ~(C_IsViewer(lastOp'.packet.from) /\ lastOp'.packet.topic = "detection"))
          => /\ settings' = settings
             /\ lastOp'.received = <<>>]_vars

C8_Witness ==
    /\ lastOp.op = "handleData"
    /\ lastOp.packet.from = <<cam_ \o <<"2">>>>
    /\ lastOp.packet.topic = "detection"
    /\ lastOp.packet.payload = CreateSettingsMessage(("cooldownSeconds" :> 10))
    /\ settings.cooldownSeconds = 30

(* C9: a settings merge - updateSettings, or an applied inbound settings     *)
(* message - changes only the settings fields present in the update: every   *)
(* other field keeps its value, and lastEventTime of both types is unchanged *)

C9_Update ==
    IF lastOp'.op = "updateSettings" THEN lastOp'.partial
    ELSE IF "settings" \in DOMAIN lastOp'.packet.payload.json
         THEN lastOp'.packet.payload.json["settings"]
         ELSE EmptyObject

C9_IsMerge ==
    /\ lastOp'.n # lastOp.n
    /\ lastOp'.op = "updateSettings" \/ (lastOp'.op = "handleData" /\ lastOp'.applied)

C9_MergeChangesOnlyGivenFields ==
    [][C9_IsMerge =>
          /\ \A f \in SettingsFields \ DOMAIN C9_Update : settings'[f] = settings[f]
          /\ DOMAIN settings' = SettingsFields
          /\ lastEventTime' = lastEventTime]_vars

C9_Witness ==
    /\ lastOp.n = 2
    /\ lastOp.op = "handleData" /\ lastOp.applied
    /\ lastOp.packet.payload = CreateSettingsMessage(("cooldownSeconds" :> 10))
    /\ settings = [DEFAULT_SETTINGS EXCEPT !.cooldownSeconds = 10, !.motionSensitivity = 1000]
    /\ lastEventTime["motion"] = StartTime

----------------------------------------------------------------------------
(* Claims on the clip recorder, checked under SpecRecorder *)

(* C3, as claimed: a capture that stopBuffering() finds in its post-roll     *)
(* wait is aborted cleanly - its timer never fires to build a clip, the call *)
(* completes with a failure result instead of staying pending, and no clip   *)
(* of it is built, persisted or returned - also when startBuffering is       *)
(* called again before the post-roll time has elapsed.                       *)

C3_StoppedCaptureAborted ==
    \A i \in DOMAIN captures :
       captures[i].stopped = "postroll" =>
          /\ captures[i].phase \notin {"saving", "done", "hung"}
          /\ \A clip \in db : clip.id # i

(* C4: overlapping captures on one recorder are independent.  A capture      *)
(* keeps the pre-roll snapshot and timestamp taken at its own trigger; its   *)
(* timer fires no earlier than postBufferSeconds after its own trigger; the  *)
(* clip it builds is its own snapshot followed by exactly the chunks its     *)
(* recorder delivered between the registration of its own handler and the    *)
(* firing of its own timer; a step of one capture changes no other capture;  *)
(* and the store holds exactly one clip, its own, per completed capture.     *)

C4_WindowChunks(c, log) ==
    SelectSeq([k \in 1..Len(log) |-> k],
              LAMBDA k : k > c.registeredAt /\ k <= c.firedAt /\ log[k] = c.rec)

C4_Step ==
    /\ \A i \in DOMAIN captures' :
          LET c == captures'[i]
          IN /\ c.phase \in {"saving", "done"} =>
                   c.postBufferChunks = C4_WindowChunks(c, chunkLog')
             /\ i \notin DOMAIN captures =>
                   c.preBufferClips = preBuffer /\ c.timestamp = now
             /\ i \in DOMAIN captures =>
                   /\ c.preBufferClips = captures[i].preBufferClips
                   /\ c.timestamp = captures[i].timestamp
                   /\ (captures[i].phase = "postroll" /\ c.phase \in {"saving", "hung"}) =>
                         now >= c.timestamp + PostBufferSeconds * 1000
    /\ (chunkLog' = chunkLog /\ isBuffering' = isBuffering) =>
          Cardinality({i \in DOMAIN captures : captures'[i] # captures[i]}) <= 1
    /\ \A clip \in db' :
          /\ clip.id \in DOMAIN captures'
          /\ captures'[clip.id].phase = "done"
          /\ clip = StoredClip(clip.id, captures'[clip.id])
    /\ \A i \in DOMAIN captures' :
          captures'[i].phase = "done" => StoredClip(i, captures'[i]) \in db'

C5_ChunksSinceTrigger(c) ==
    [k \in 1..(c.firedAt - c.triggeredAt) |-> c.triggeredAt + k]

C5_ClipIsPreRollPlusEveryChunk ==
    \A clip \in db :
       LET c == captures[clip.id]
       IN c.stopped = "no" =>
             /\ clip.videoBlob = c.preBufferClips \o C5_ChunksSinceTrigger(c)
             /\ Len(clip.videoBlob) <= PreBufferSeconds + (c.firedAt - c.triggeredAt)

(* C10: captureEvent called while the recorder is not buffering fails at     *)
(* once - its result is null in the step of the call, with no handler, no    *)
(* timer and no wait - and persists no clip, then or later.  So it is after  *)
(* startBuffering() and stopBuffering() with no chunk captured in between.   *)

C10_Step ==
    /\ (Len(captures') = Len(captures) + 1 /\ (~isBuffering \/ mediaRecorder = 0)) =>
          /\ captures'[Len(captures')].phase = "null"
          /\ captures'[Len(captures')].rec = 0
          /\ db' = db
    /\ \A i \in DOMAIN captures :
          captures[i].phase = "null" => captures'[i] = captures[i]
    /\ \A clip \in db' : captures'[clip.id].phase # "null"

C10_CaptureWhileNotBufferingFails == [][C10_Step]_vars

C10_Witness ==
    /\ Len(recorders) = 1 /\ recorders[1] = "stopping"
    /\ chunkLog = <<>>
    /\ Len(captures) = 1 /\ captures[1].phase = "null"
    /\ db = {}

----------------------------------------------------------------------------
(* Claims on the clip store, checked under SpecStore *)

C_Min(a, b) == IF a < b THEN a ELSE b

C_Clips(r) == {r[i] : i \in 1..Len(r)}

C_NewestFirst(r) ==
    \A i, j \in 1..Len(r) : i < j => r[i].timestamp >= r[j].timestamp

(* getClips() with no options has just resolved, and nothing was deleted *)
C11_GetAll ==
    /\ lastStoreOp.op = "getClips"
    /\ lastStoreOp.options = EmptyObject
    /\ lastStoreOp.result # <<>>
    /\ lastStoreOp.deleted = {}

C11_SyncedIffMarked(r) ==
    \A i \in 1..Len(r) : r[i].synced <=> r[i].id \in lastStoreOp.marked

(* C11, as claimed: after N successful captureEvent calls and no deleteClip, *)
(* getClips() with no options returns exactly N clips, by timestamp          *)
(* descending, each with synced = false until markSynced has been called on  *)
(* its id and synced = true after.                                           *)

C11_GetClipsReturnsAllN ==
    C11_GetAll =>
       LET r == lastStoreOp.result[1]
       IN /\ Len(r) = Cardinality(db)
          /\ C_NewestFirst(r)
          /\ C11_SyncedIffMarked(r)

(* C11, amended: it returns the min(N, 50) most recent of the N clips, by    *)
(* timestamp descending, each with synced = false until markSynced has been  *)
(* called on its id and synced = true after.                                 *)

C11_GetClipsReturnsNewest50 ==
    C11_GetAll =>
       LET r == lastStoreOp.result[1]
       IN /\ Len(r) = C_Min(Cardinality(db), 50)
          /\ C_Clips(r) \subseteq db
          /\ Cardinality(C_Clips(r)) = Len(r)
          /\ \A c \in db \ C_Clips(r) : \A i \in 1..Len(r) : r[i].timestamp >= c.timestamp
          /\ C_NewestFirst(r)
          /\ C11_SyncedIffMarked(r)

C11_Witness ==
    /\ C11_GetAll
    /\ Cardinality(db) = 51
    /\ Len(lastStoreOp.result[1]) = 50
    /\ lastStoreOp.marked = {IdOrder(MaxStored)}
    /\ \E i \in 1..50 : lastStoreOp.result[1][i].synced
    /\ \E i \in 1..50 : ~lastStoreOp.result[1][i].synced

(* C12: getClips(filter) returns clips most recent first, only clips that    *)
(* match every filter field given (type, synced), at most limit of them (50  *)
(* when limit is omitted), and leaves a matching stored clip out only when   *)
(* limit matching clips at least as recent are already in the result.        *)

C12_Matches(clip, options) ==
    /\ "type" \in DOMAIN options => clip.type = options["type"]
    /\ "synced" \in DOMAIN options => clip.synced = options["synced"]

C12_Limit(options) ==
    IF "limit" \in DOMAIN options THEN options["limit"] ELSE 50

C12_GetClipsFilteredNewestFirst ==
    (lastStoreOp.op = "getClips" /\ lastStoreOp.result # <<>>) =>
       LET r == lastStoreOp.result[1]
           options == lastStoreOp.options
       IN /\ C_NewestFirst(r)
          /\ C_Clips(r) \subseteq db
          /\ Cardinality(C_Clips(r)) = Len(r)
          /\ \A i \in 1..Len(r) : C12_Matches(r[i], options)
          /\ Len(r) <= C12_Limit(options)
          /\ \A c \in db \ C_Clips(r) :
                C12_Matches(c, options) =>
                   /\ Len(r) = C12_Limit(options)
                   /\ \A i \in 1..Len(r) : r[i].timestamp >= c.timestamp

C12_Witness ==
    /\ lastStoreOp.op = "getClips" /\ lastStoreOp.result # <<>>
    /\ lastStoreOp.options = ("type" :> "sound") @@ ("synced" :> FALSE) @@ ("limit" :> 2)
    /\ Cardinality(db) = 51
    /\ lastStoreOp.marked = {IdOrder(MaxStored)}
    /\ Len(lastStoreOp.result[1]) = 2
    /\ \A i \in 1..2 : lastStoreOp.result[1][i].id # IdOrder(MaxStored)
    /\ \E c \in db : c.type = "sound" /\ c.synced
    /\ \E c \in db \ C_Clips(lastStoreOp.result[1]) : c.type = "sound" /\ ~c.synced

(* C13: markSynced(id) and deleteClip(id) are idempotent - applied a second  *)
(* time, either leaves the store as the first application left it - and on  *)
(* an id that is not in the store either leaves the store unchanged and      *)
(* resolves (it fails only when the storage itself fails, and then too the   *)
(* store is unchanged).                                                      *)

C13_Expected(store, op) ==
    IF op.op = "markSynced"
    THEN {c \in store : c.id # op.id}
         \cup {[c EXCEPT !.synced = TRUE] : c \in {d \in store : d.id = op.id}}
    ELSE {c \in store : c.id # op.id}

C13_Step ==
    LET op == lastStoreOp'
    IN (op.n # lastStoreOp.n /\ op.op \in {"markSynced", "deleteClip"}) =>
          /\ op.result \in {"resolved", "rejected"}
          /\ op.result = "resolved" => db' = C13_Expected(db, op)
          /\ op.result = "rejected" => db' = db
          /\ op.again => db' = db
          /\ (\A c \in db : c.id # op.id) => db' = db

C13_MarkAndDeleteIdempotent == [][C13_Step]_vars

C13_Witness ==
    /\ lastStoreOp.op = "markSynced"
    /\ lastStoreOp.again
    /\ lastStoreOp.result = "resolved"
    /\ Cardinality(db) = 51
    /\ \E c \in db : c.id = lastStoreOp.id /\ c.synced

----------------------------------------------------------------------------
(* Further claims on the clip recorder, checked under SpecRecorder *)

(* The ids of the clips some getClips call would return *)
C_VisibleIds(store) ==
    UNION {{r[k].id : k \in 1..Len(r)} :
              r \in {GetClipsResult(store, options) : options \in GetClipsOptions}}

(* C14: when the write of the clip fails (or the database cannot be opened)  *)
(* captureEvent as a whole fails - the call rejects and returns no clip -    *)
(* the clip is in no getClips result, and the write is not tried again: the  *)
(* failed call never changes afterwards and never gets a clip stored.        *)

C14_Step ==
    /\ \A i \in DOMAIN captures :
          /\ (captures[i].phase = "saving" /\ captures'[i] # captures[i]) =>
                captures'[i].phase \in {"done", "threw"}
          /\ (captures[i].phase = "saving" /\ captures'[i].phase = "threw") => db' = db
          /\ captures[i].phase = "threw" => captures'[i] = captures[i]
    /\ \A i \in DOMAIN captures' :
          captures'[i].phase = "threw" => i \notin C_VisibleIds(db')

C14_FailedWriteFailsCapture == [][C14_Step]_vars

C14_Witness ==
    /\ Len(captures) = 1
    /\ captures[1].phase = "threw"
    /\ captures[1].rec # 0
    /\ captures[1].postBufferChunks # <<>>
    /\ db = {}

----------------------------------------------------------------------------
(* Claim on the engine as a whole, checked under SpecEngine *)

(* C15, as claimed: a failure of evidence recording degrades only recording. *)
(* For an accepted event whose capture failed - the recorder was not         *)
(* buffering, the write failed, the capture was aborted - the event is still *)
(* published: once its handleEvent has settled, it has run to its            *)
(* publishData call and handleDetection has returned true.                   *)

C15_CaptureFailed(n) ==
    /\ n \in DOMAIN captureOf
    /\ captures[captureOf[n]].phase \in {"null", "threw"}

C15_FailedCaptureStillPublishes ==
    (/\ C15_CaptureFailed(lastCall.n)
     /\ \A c \in awaiting : c.n # lastCall.n)
    => lastCall.result = "true"

----------------------------------------------------------------------------
(* Claims on the clip recorder, continued (SpecRecorder) *)

(* C16: failing to produce the still image - the video element not ready, no *)
(* 2d context, the encoding yielding no blob - does not abort the capture:   *)
(* the call goes on to its post-roll exactly as it would with an image, and  *)
(* the clip is persisted and returned with imageBlob omitted.                *)

C16_Step ==
    /\ \A i \in DOMAIN captures' \ DOMAIN captures :
          (captures'[i].screenshot = "null" /\ captures'[i].phase # "null") =>
             /\ captures'[i].phase = "postroll"
             /\ captures'[i].imageBlob = FALSE
    /\ \A i \in DOMAIN captures :
          (captures[i].phase = "screenshot" /\ captures'[i].phase # "screenshot") =>
             /\ captures'[i].phase = (IF mediaRecorder = 0 THEN "threw" ELSE "postroll")
             /\ [captures'[i] EXCEPT !.imageBlob = TRUE]
                   = IF mediaRecorder = 0
                     THEN [captures[i] EXCEPT !.imageBlob = TRUE, !.phase = "threw"]
                     ELSE [captures[i] EXCEPT
                              !.imageBlob = TRUE,
                              !.phase = "postroll",
                              !.rec = mediaRecorder,
                              !.deadline = now + config.postBufferSeconds * 1000,
                              !.registeredAt = Len(chunkLog)]
    /\ \A clip \in db' \ db :
          /\ clip.imageBlob = captures[clip.id].imageBlob
          /\ captures[clip.id].screenshot # "encode" => clip.imageBlob = FALSE

C17_RingBufferBounded ==
    /\ Len(preBuffer) <= config.preBufferSeconds
    /\ \A i \in 1..Len(preBuffer) :
          preBuffer[i] = Len(chunkLog) - Len(preBuffer) + i

(* C18: stopBuffering clears the ring buffer and the buffer stays empty     *)
(* until the next startBuffering: while the recorder is NotBuffering the     *)
(* ring buffer is empty, and every chunk in it was produced by the capture   *)
(* that is active now, never by one torn down.                               *)
C18_RingBufferEmptyWhileNotBuffering ==
    /\ ~isBuffering => preBuffer = <<>>
    /\ \A i \in 1..Len(preBuffer) : chunkLog[preBuffer[i]] = mediaRecorder

(* C19: startBuffering moves the recorder from NotBuffering to Buffering,    *)
(* and while the recorder is Buffering it is a no-op.  A MediaRecorder is    *)
(* created only by startBuffering, so: every step that creates one starts    *)
(* in NotBuffering, makes it the active capture, ends in Buffering exactly   *)
(* when the recorder started recording, and leaves the ring buffer, the      *)
(* captures in flight, the stored clips and the configuration alone; and no  *)
(* step taken while Buffering creates a recorder or replaces the active one. *)
C19_Step ==
    /\ Len(recorders') >= Len(recorders)
    /\ Len(recorders') > Len(recorders) =>
          /\ ~isBuffering
          /\ Len(recorders') = Len(recorders) + 1
          /\ mediaRecorder' = Len(recorders')
          /\ isBuffering' = (recorders'[Len(recorders')] = "recording")
          /\ \A r \in DOMAIN recorders : recorders'[r] = recorders[r]
          /\ UNCHANGED <<preBuffer, captures, db, chunkLog, config>>
    /\ isBuffering =>
          /\ Len(recorders') = Len(recorders)
          /\ mediaRecorder' = mediaRecorder \/ (mediaRecorder' = 0 /\ ~isBuffering')
    /\ (~isBuffering /\ isBuffering') => Len(recorders') > Len(recorders)

C19_StartBufferingNoOpWhenBuffering == [][C19_Step]_vars

(* Buffering with chunks in the ring buffer and a captureEvent in its        *)
(* post-roll, at a point where startBuffering can be called again            *)
C19_Witness ==
    /\ isBuffering
    /\ mediaRecorder = 1
    /\ recorders = <<"recording">>
    /\ preBuffer # <<>>
    /\ Len(recorders) + Len(captures) < MaxRecorderCalls
    /\ \E i \in DOMAIN captures : captures[i].phase = "postroll"

(* C20: a StoredClip is never visible with a partially written videoBlob.    *)
(* Every clip in the store, and so every clip getClips can return, belongs   *)
(* to a capture whose post-roll timer has fired and whose captureEvent has   *)
(* returned it; its videoBlob is the capture's pre-roll snapshot followed by *)
(* all the chunks its handler collected during the post-roll window; a       *)
(* capture still in flight (screenshot, post-roll or write under way) or     *)
(* failed has no clip in the store; and a stored clip never changes.         *)
C20_InFlight == {"screenshot", "postroll", "saving"}

C20_Step ==
    /\ \A clip \in db' :
          /\ clip.id \in DOMAIN captures'
          /\ LET c == captures'[clip.id]
             IN /\ c.phase = "done"
                /\ c.rec # 0
                /\ now' >= c.deadline
                /\ c.firedAt >= c.registeredAt
                /\ clip.videoBlob = c.preBufferClips \o c.postBufferChunks
                /\ c.postBufferChunks = C4_WindowChunks(c, chunkLog')
                /\ clip.id \in DOMAIN captures =>
                      /\ c.preBufferClips = captures[clip.id].preBufferClips
                      /\ captures[clip.id].phase = "done" =>
                            c.postBufferChunks = captures[clip.id].postBufferChunks
    /\ \A a, b \in db' : a.id = b.id => a = b
    /\ db \subseteq db'
    /\ \A i \in DOMAIN captures' :
          captures'[i].phase # "done" => \A clip \in db' : clip.id # i
    /\ C_VisibleIds(db') \subseteq
          {i \in DOMAIN captures' : captures'[i].phase = "done"}

C20_ClipVisibleOnlyWhenComplete == [][C20_Step]_vars

(* A completed capture's clip, pre-roll and post-roll chunks in it, is       *)
(* visible while a later capture is still in its post-roll and has none      *)
C20_Witness ==
    /\ Len(captures) = 2
    /\ captures[1].phase = "done"
    /\ captures[2].phase \in C20_InFlight
    /\ captures[1].preBufferClips # <<>>
    /\ captures[1].postBufferChunks # <<>>
    /\ C_VisibleIds(db) = {1}

----------------------------------------------------------------------------
(* Claims on the callback of an accepted detection, checked under SpecEngine *)

(* C21, as claimed: handleDetection invokes the event callback fire-and-     *)
(* forget - once a call has been accepted and the callback invoked, the      *)
(* call's result (true) is there, whether or not the callback's clip capture *)
(* and send have finished.                                                   *)
C21_AcceptedResultWithoutWaiting ==
    (lastCall.n > 0 /\ lastCall.callbacks # <<>>) => lastCall.result = "true"

(* C22: a failed channel send is logged and dropped.  When the publish of an *)
(* event rejects, handleEvent still returns and handleDetection returns      *)
(* true, the clip captured for the event stays stored, and nothing of the    *)
(* EventManager or the recorder changes; when the publish of a settings      *)
(* message rejects, the settings are updated all the same and nothing else   *)
(* changes; and whether a detection is accepted depends on the settings, the *)
(* cooldown and the confidence alone, never on sends that failed or are      *)
(* still under way.                                                          *)
C22_SendFailed(c) ==
    /\ c \in awaiting
    /\ c \notin awaiting'
    /\ CaptureSettled(c, {"null", "done"})
    /\ toViewer' = toViewer

C22_Step ==
    /\ \A c \in awaiting :
          C22_SendFailed(c) =>
             /\ lastCall.n = c.n => lastCall'.result = "true"
             /\ captures' = captures
             /\ db' = db
             /\ captures[captureOf[c.n]].phase = "done" =>
                   \E clip \in db' : clip.id = captureOf[c.n]
             /\ UNCHANGED <<settings, lastEventTime, nCalls, isBuffering, mediaRecorder, preBuffer>>
    /\ (lastOp'.n # lastOp.n /\ lastOp'.op = "updateSettings" /\ toViewer' = toViewer) =>
          /\ settings' = Spread(settings, lastOp'.partial)
          /\ UNCHANGED <<lastEventTime, nCalls, lastCall, awaiting>>
          /\ UNCHANGED recVars
    /\ nCalls' = nCalls + 1 =>
          (lastCall'.result = "false") =
             Rejects(settings, lastEventTime, lastCall'.type, lastCall'.confidence, now)

C22_FailedSendIsDropped == [][C22_Step]_vars

(* The sends of the first event and of a settings update failed (the viewer  *)
(* has received nothing), the first event's clip is stored, and a later      *)
(* event has been accepted, captured and sent                                *)
C22_Witness ==
    /\ nCalls = 2
    /\ awaiting = {}
    /\ lastCall.n = 2 /\ lastCall.result = "true"
    /\ 1 \in DOMAIN captureOf /\ 2 \in DOMAIN captureOf
    /\ captures[captureOf[1]].phase = "done"
    /\ \E clip \in db : clip.id = captureOf[1]
    /\ lastOp.op = "updateSettings"
    /\ settings.cooldownSeconds = 10
    /\ vLast.handled = <<>>
    /\ Len(toViewer) = 1
    /\ toViewer[1].payload.json.type = "detection_event"
    /\ toViewer[1].payload.json.event.type = lastCall.type

----------------------------------------------------------------------------
(* Further claims on the settings, checked under SpecRoom *)

(* C23, as claimed: the sensitivities getSettings() reports are always       *)
(* within [0,1] - an update or inbound settings message carrying one outside *)
(* is rejected and the previous settings are kept.                           *)
C23_SensitivitiesInUnitInterval ==
    /\ 0 <= settings.motionSensitivity /\ settings.motionSensitivity <= 1000
    /\ 0 <= settings.soundSensitivity /\ settings.soundSensitivity <= 1000

----------------------------------------------------------------------------
(* Further claims on the cooldown state, checked under Spec *)

C24_Step ==
    \A t \in EventTypes :
       /\ lastEventTime'[t] <= now'
       /\ lastEventTime'[t] # lastEventTime[t] =>
             \/ /\ nResets' = nResets + 1
                /\ lastEventTime'[t] = 0
             \/ /\ nResets' = nResets
                /\ nCalls' = nCalls + 1
                /\ lastEventTime'[t] = now
                /\ lastEventTime'[t] > lastEventTime[t]

C25_Other(type) == IF type = "motion" THEN "sound" ELSE "motion"

C25_Step ==
    nCalls' = nCalls + 1 =>
       LET type == lastCall'.type
           other == C25_Other(type)
       IN /\ lastEventTime'[other] = lastEventTime[other]
          /\ InCooldown(settings', lastEventTime', other, now') =
                InCooldown(settings, lastEventTime, other, now)
          /\ \A t \in {0, now} :
                (lastCall'.result = "false") =
                   Rejects(settings, [lastEventTime EXCEPT ![other] = t], type,
                           lastCall'.confidence, now)
          /\ lastCall'.result # "false" => lastEventTime'[type] = now

C25_CooldownPerType == [][C25_Step]_vars

(* A sound detection accepted while motion is in Cooldown *)
C25_Witness ==
    /\ lastCall.n = 2
    /\ lastCall.type = "sound"
    /\ lastCall.result # "false"
    /\ lastEventTime["sound"] = now
    /\ lastEventTime["motion"] > 0
    /\ lastEventTime["motion"] < now
    /\ InCooldown(settings, lastEventTime, "motion", now)

----------------------------------------------------------------------------
(* Claims on the motion detector, checked under SpecMotion *)

(* An analyze step, a updateConfig step, a reset step of the detector *)
C_MotionStep(op) ==
    /\ lastMotion'.op = op
    /\ <<previousFrame, motionConfig, lastMotion>>' # <<previousFrame, motionConfig, lastMotion>>

(* The pixels of frame cur whose summed absolute difference from frame prev, *)
(* over all four channels, exceeds 3 * threshold                             *)
C_ChangedSet(cur, prev, threshold) ==
    {i \in DOMAIN cur :
        LET d(c) == IF cur[i][c] >= prev[i][c]
                    THEN cur[i][c] - prev[i][c]
                    ELSE prev[i][c] - cur[i][c]
        IN d(1) + d(2) + d(3) + d(4) > 3 * threshold}

(* C26: an analyze with no previous frame - after construction, after        *)
(* reset(), after an updateConfig that gave a width or height - returns      *)
(* hasMotion = false and score = 0 whatever the frame, and keeps the frame;  *)
(* reset() and an updateConfig giving a width or height drop the previous    *)
(* frame; an updateConfig giving only thresholds keeps it and sets the       *)
(* thresholds, and the next analyze decides with them.                       *)
C26_Step ==
    /\ (C_MotionStep("analyze") /\ previousFrame = <<>>) =>
          /\ lastMotion'.result.hasMotion = FALSE
          /\ lastMotion'.result.score = <<0, 1>>
          /\ lastMotion'.ready => previousFrame' # <<>>
          /\ ~lastMotion'.ready => previousFrame' = <<>>
    /\ C_MotionStep("reset") => previousFrame' = <<>> /\ motionConfig' = motionConfig
    /\ C_MotionStep("updateConfig") =>
          LET partial == lastMotion'.partial
          IN /\ \A k \in DOMAIN motionConfig :
                   motionConfig'[k] = IF k \in DOMAIN partial THEN partial[k] ELSE motionConfig[k]
             /\ IF "width" \in DOMAIN partial \/ "height" \in DOMAIN partial
                THEN previousFrame' = <<>>
                ELSE previousFrame' = previousFrame
    /\ (C_MotionStep("analyze") /\ previousFrame # <<>> /\ lastMotion'.ready) =>
          LET changed == Cardinality(C_ChangedSet(previousFrame'[1], previousFrame[1],
                                                  motionConfig.threshold))
          IN lastMotion'.result.hasMotion =
                (changed * 1000000 > motionConfig.motionThreshold
                                   * motionConfig.width * motionConfig.height)

C26_ColdStartReportsNoMotion == [][C26_Step]_vars

(* After an updateConfig that changed the height, a frame that is not black  *)
(* has been analyzed with the result no motion, score 0, and is now the      *)
(* previous frame                                                            *)
C26_Witness ==
    /\ motionConfig.height = 1
    /\ lastMotion.op = "analyze"
    /\ lastMotion.ready
    /\ lastMotion.result = NoMotion
    /\ previousFrame # <<>>
    /\ \E i \in DOMAIN previousFrame[1] : previousFrame[1][i] # <<0, 0, 0, 255>>

(* C27: an analyze with a previous frame returns score = changed / total,    *)
(* where changed counts the pixels whose summed absolute per-channel         *)
(* difference from the previously analyzed frame exceeds 3 * threshold,      *)
(* hasMotion = score > motionThreshold, confidence = min(score /             *)
(* motionThreshold, 1), and makes the frame the previous frame; two          *)
(* identical frames give hasMotion = false and score = 0.                    *)
C27_Step ==
    (C_MotionStep("analyze") /\ previousFrame # <<>> /\ lastMotion'.ready) =>
       LET cur == previousFrame'[1]
           prev == previousFrame[1]
           total == Cardinality(DOMAIN cur)
           changed == Cardinality(C_ChangedSet(cur, prev, motionConfig.threshold))
           limit == motionConfig.motionThreshold * total
           r == lastMotion'.result
       IN /\ total = motionConfig.width * motionConfig.height
          /\ r.score[2] > 0
          /\ r.score[1] * total = changed * r.score[2]
          /\ r.hasMotion = (changed * 1000000 > limit)
          /\ r.confidence[2] > 0
          /\ IF changed * 1000000 >= limit
             THEN r.confidence[1] = r.confidence[2]
             ELSE r.confidence[1] * limit = changed * 1000000 * r.confidence[2]
          /\ cur = prev => (r.hasMotion = FALSE /\ r.score[1] = 0)
          /\ motionConfig' = motionConfig

C27_ScoreIsChangedOverTotal == [][C27_Step]_vars

(* Half of the pixels changed with motionThreshold 0.5: the score equals the *)
(* threshold, so no motion is reported, with confidence 1                    *)
C27_Witness ==
    /\ lastMotion.op = "analyze"
    /\ lastMotion.ready
    /\ motionConfig.motionThreshold = 500000
    /\ lastMotion.result.score = <<1, 2>>
    /\ lastMotion.result.hasMotion = FALSE
    /\ lastMotion.result.confidence = <<1, 1>>

----------------------------------------------------------------------------
(* Claims on the sound detector, checked under SpecSound *)

C_OpenContexts == {k \in DOMAIN contexts : contexts[k] # "closed"}

C_SourceBindings == {k \in DOMAIN sources : sources[k].analyser # 0}

(* C28, as claimed: connect is an idempotent bind - whatever connect calls   *)
(* have been made, overlapping ones included, at most one audio context and  *)
(* one source binding exist, and exactly one of each while connected.        *)
C28_OneContextOneBinding ==
    /\ Cardinality(C_OpenContexts) <= 1
    /\ Cardinality(C_SourceBindings) <= 1
    /\ isConnected =>
          /\ C_OpenContexts = {audioContext}
          /\ C_SourceBindings = {source}

(* C29: after disconnect(), and until connect is called again, the detector  *)
(* holds no context, analyser, source or data array and reports not          *)
(* connected, and analyze() returns {hasSound: false, volume: 0} - also when *)
(* a connect was in progress at the disconnect, whatever becomes of it; and  *)
(* a disconnect() of a detector already disconnected changes nothing.        *)
C29_Step ==
    /\ lastSound'.disconnected =>
          /\ audioContext' = 0 /\ analyser' = 0 /\ source' = 0
          /\ ~dataArray' /\ ~isConnected'
          /\ lastSound'.op = "analyze" => lastSound'.result = NoSound
    /\ (lastSound.disconnected /\ lastSound'.disconnects = lastSound.disconnects + 1) =>
          UNCHANGED <<audioContext, analyser, source, dataArray, isConnected,
                      contexts, analysers, sources, connects>>

C29_DisconnectedAnalyzeReportsNoSound == [][C29_Step]_vars

(* analyze() after a disconnect() that came while a connect was awaiting its *)
(* resume, and a second disconnect(); the connect has since failed           *)
C29_Witness ==
    /\ lastSound.disconnects = 2
    /\ lastSound.op = "analyze"
    /\ lastSound.disconnected
    /\ lastSound.result = NoSound
    /\ \E i \in DOMAIN connects :
          /\ connects[i].phase = "threw"
          /\ connects[i].ctx # 0
          /\ contexts[connects[i].ctx] = "closed"
    /\ \E i \in DOMAIN connects : connects[i].phase = "done"

----------------------------------------------------------------------------
(* Claim on the threshold functions, checked under SpecThresholds *)

(* C30: for sensitivities in [0,1] the thresholds are non-increasing in the  *)
(* sensitivity - of two sensitivities set one after the other, the higher    *)
(* never gives the higher threshold - and range from 0.05 (sensitivity 0)    *)
(* down to 0.01 (sensitivity 1) for motion and from 0.3 down to 0.05 for     *)
(* sound.                                                                    *)
C30_Step ==
    /\ lastMotion'.op = "updateConfig" =>
          /\ motionConfig'.motionThreshold >= 10000
          /\ motionConfig'.motionThreshold <= 50000
          /\ settings'.motionSensitivity = 0 => motionConfig'.motionThreshold = 50000
          /\ settings'.motionSensitivity = 1000 => motionConfig'.motionThreshold = 10000
          /\ motionConfig'.motionThreshold * 1000 =
                50000000 - 40000 * settings'.motionSensitivity
    /\ (lastMotion.op = "updateConfig" /\ lastMotion'.op = "updateConfig") =>
          /\ settings.motionSensitivity <= settings'.motionSensitivity =>
                motionConfig.motionThreshold >= motionConfig'.motionThreshold
          /\ settings.motionSensitivity >= settings'.motionSensitivity =>
                motionConfig.motionThreshold <= motionConfig'.motionThreshold
    /\ lastSound'.op = "updateConfig" =>
          /\ soundConfig'.volumeThreshold >= 50000
          /\ soundConfig'.volumeThreshold <= 300000
          /\ settings'.soundSensitivity = 0 => soundConfig'.volumeThreshold = 300000
          /\ settings'.soundSensitivity = 1000 => soundConfig'.volumeThreshold = 50000
          /\ soundConfig'.volumeThreshold * 1000 =
                300000000 - 250000 * settings'.soundSensitivity
    /\ (lastSound.op = "updateConfig" /\ lastSound'.op = "updateConfig") =>
          /\ settings.soundSensitivity <= settings'.soundSensitivity =>
                soundConfig.volumeThreshold >= soundConfig'.volumeThreshold
          /\ settings.soundSensitivity >= settings'.soundSensitivity =>
                soundConfig.volumeThreshold <= soundConfig'.volumeThreshold

C30_ThresholdsNonIncreasing == [][C30_Step]_vars

(* Two motion sensitivities have been set one after the other; the second,  *)
(* sensitivity 1, has given threshold 0.01                                   *)
C30_Witness ==
    /\ lastOp.n = 2
    /\ settings.motionSensitivity = 1000
    /\ motionConfig.motionThreshold = 10000
    /\ lastMotion.op = "updateConfig"
    /\ settings.soundSensitivity = DEFAULT_SETTINGS.soundSensitivity

----------------------------------------------------------------------------
(* Claim on the components that open a media source, checked under           *)
(* SpecDevices                                                               *)

(* The connect call that fails in this step: a new call that throws at once, *)
(* or one whose awaited resume settles and that then throws                  *)
C31_ConnectFails ==
    \/ /\ Len(connects') = Len(connects) + 1
       /\ connects'[Len(connects')].phase = "threw"
    \/ \E i \in DOMAIN connects :
          connects[i].phase = "resuming" /\ connects'[i].phase = "threw"

(* The connect call that runs to its end in this step *)
C31_ConnectSucceeds ==
    \/ /\ Len(connects') = Len(connects) + 1
       /\ connects'[Len(connects')].phase = "done"
    \/ \E i \in DOMAIN connects :
          connects[i].phase = "resuming" /\ connects'[i].phase = "done"

(* C31: a media source that cannot be opened leaves the component inactive,  *)
(* and the call can be retried.  A startBuffering whose MediaRecorder cannot *)
(* be started leaves the recorder not buffering, with the ring buffer, the   *)
(* captures and the store as they were, and a captureEvent made while the    *)
(* recorder is not buffering returns null; a connect that fails leaves the   *)
(* sound detector's connected flag, source and data array as they were, and  *)
(* analyze on a detector that is not connected reports no sound; a           *)
(* startBuffering that starts its recorder leaves the recorder buffering on  *)
(* that recorder, and a connect that runs to its end leaves the detector     *)
(* connected with an analyser fed by a source.                               *)
C31_Step ==
    /\ (/\ Len(recorders') = Len(recorders) + 1
        /\ recorders'[Len(recorders')] = "inactive") =>
          /\ ~isBuffering /\ ~isBuffering'
          /\ UNCHANGED <<preBuffer, captures, db, chunkLog>>
    /\ (Len(recorders') = Len(recorders) /\ ~isBuffering /\ Len(captures') = Len(captures)) =>
          ~isBuffering'
    /\ (Len(captures') = Len(captures) + 1 /\ ~isBuffering) =>
          /\ captures'[Len(captures')].phase = "null"
          /\ UNCHANGED <<isBuffering, mediaRecorder, recorders, db>>
    /\ (/\ Len(recorders') = Len(recorders) + 1
        /\ recorders'[Len(recorders')] = "recording") =>
          /\ ~isBuffering /\ isBuffering'
          /\ mediaRecorder' = Len(recorders')
    /\ C31_ConnectFails =>
          UNCHANGED <<isConnected, source, dataArray, sources>>
    /\ (lastSound'.op = "analyze" /\ ~isConnected') => lastSound'.result = NoSound
    /\ C31_ConnectSucceeds =>
          /\ isConnected' /\ dataArray'
          /\ analyser' # 0
          /\ \E k \in DOMAIN sources' : sources'[k].analyser = analyser'

C31_FailedOpenStaysInactiveAndRetries == [][C31_Step]_vars

(* Both components after a failure and a retry: the first MediaRecorder did  *)
(* not start, a captureEvent made then returned null, and the second         *)
(* startBuffering has the recorder buffering; the first connect threw, the   *)
(* second ran to its end, and analyze now hears its source                   *)
C31_Witness ==
    /\ recorders = <<"inactive", "recording">>
    /\ isBuffering /\ mediaRecorder = 2
    /\ Len(captures) = 1 /\ captures[1].phase = "null"
    /\ Len(connects) = 2
    /\ connects[1].phase = "threw" /\ connects[1].ctx # 0
    /\ connects[2].phase = "done"
    /\ isConnected
    /\ lastSound.op = "analyze" /\ lastSound.result.hasSound

----------------------------------------------------------------------------
(* Claim on rejected detections, checked under Spec *)

(* The three reasons for rejecting a detection, as the claim names them *)
C32_Disabled(s, type) ==
    (type = "motion" /\ ~s.motionEnabled) \/ (type = "sound" /\ ~s.soundEnabled)

C32_StillInCooldown(s, last, type, t) == t - last[type] < s.cooldownSeconds * 1000

C32_BelowMinConfidence(s, type, confidence) ==
    confidence * 1000 <
       600000 - (IF type = "motion" THEN s.motionSensitivity ELSE s.soundSensitivity) * 400

(* C32: a rejected handleDetection changes nothing.  A call made while its   *)
(* type is disabled, while the type is still in cooldown, or with a          *)
(* confidence below minConfidence returns false, leaves lastEventTime of     *)
(* both types and the settings as they were, and invokes no event callback:  *)
(* none is recorded for the call and none is awaited that was not before.    *)
C32_Step ==
    lastCall'.n # lastCall.n =>
       LET c == lastCall'
       IN (\/ C32_Disabled(settings, c.type)
           \/ C32_StillInCooldown(settings, lastEventTime, c.type, now)
           \/ C32_BelowMinConfidence(settings, c.type, c.confidence)) =>
             /\ c.result = "false"
             /\ c.callbacks = <<>>
             /\ UNCHANGED <<lastEventTime, settings, awaiting, now>>

C32_RejectedDetectionChangesNothing == [][C32_Step]_vars

(* A detection rejected by the cooldown alone: its type is enabled and its   *)
(* confidence high enough, and an earlier detection of the type was accepted *)
(* less than a cooldown ago                                                  *)
C32_Witness ==
    /\ lastCall.n = 2
    /\ lastCall.result = "false"
    /\ ~C32_Disabled(settings, lastCall.type)
    /\ ~C32_BelowMinConfidence(settings, lastCall.type, lastCall.confidence)
    /\ lastEventTime[lastCall.type] > 0
    /\ lastCall.at - lastEventTime[lastCall.type] = 10000
    /\ C32_StillInCooldown(settings, lastEventTime, lastCall.type, lastCall.at)

----------------------------------------------------------------------------
(* Claim on stored clips, checked under SpecStore *)

(* The fields of a StoredClip other than synced *)
C33_Fixed(c) ==
    <<c.id, c.type, c.timestamp, c.confidence, c.deviceId, c.videoBlob, c.imageBlob>>

(* C33: once persisted, a StoredClip's id, type, timestamp, confidence,      *)
(* deviceId, videoBlob and imageBlob never change, and its synced field      *)
(* never goes back to false: every clip of the store that is still there     *)
(* after a step has the same fields, with synced unchanged or turned from    *)
(* false to true, and no step adds a clip under an id or splits one in two.  *)
(* markSynced(id) changes only the synced field of the clip with that id:    *)
(* every other clip is in the store afterwards exactly as before, no clip is *)
(* added or removed, and when the call resolves the clip with that id is     *)
(* synced.                                                                   *)
C33_Step ==
    /\ \A d \in db' :
          \E c \in db : /\ C33_Fixed(c) = C33_Fixed(d)
                        /\ c.synced => d.synced
    /\ \A c, d \in db' : c.id = d.id => c = d
    /\ LET op == lastStoreOp'
       IN (op.n # lastStoreOp.n /\ op.op = "markSynced") =>
             /\ \A c \in db : c.id # op.id => c \in db'
             /\ {c.id : c \in db'} = {c.id : c \in db}
             /\ op.result = "resolved" => \A d \in db' : d.id = op.id => d.synced
             /\ op.result = "rejected" => db' = db

C33_OnlySyncedChangesOnce == [][C33_Step]_vars

(* Two clips have been marked by two markSynced calls, the second just now,  *)
(* and are synced with their other fields as saved, while the other clips of *)
(* the store are still not synced                                            *)
C33_Witness ==
    /\ lastStoreOp.n = 2
    /\ lastStoreOp.op = "markSynced"
    /\ lastStoreOp.result = "resolved"
    /\ lastStoreOp.marked = {IdOrder(2), IdOrder(MaxStored)}
    /\ [SavedClip(2) EXCEPT !.synced = TRUE] \in db
    /\ [SavedClip(MaxStored) EXCEPT !.synced = TRUE] \in db
    /\ \A k \in 1..MaxStored : k \notin {2, MaxStored} => SavedClip(k) \in db

----------------------------------------------------------------------------
(* Claim on the termination of captures, checked under SpecRecorderFair *)

(* C34, as claimed: under fair timers and a store that accepts the write,    *)
(* every captureEvent invoked while buffering eventually completes - it      *)
(* returns a StoredClip with synced false that is then in the store - in     *)
(* every interleaving with chunk arrivals, other captureEvent calls and      *)
(* startBuffering / stopBuffering; no such call stays pending forever.       *)
C34_EveryCaptureCompletes ==
    \A i \in 1..MaxRecorderCalls :
       [](( /\ i \in DOMAIN captures
            /\ captures[i].phase # "null")
          => <>( /\ i \in DOMAIN captures
                 /\ captures[i].phase = "done"
                 /\ \E clip \in db : clip.id = i /\ ~clip.synced))

----------------------------------------------------------------------------
(* Claim on the detectors' thresholds, checked under SpecRoom *)

(* C35, as claimed: at every point after the services are initialized the    *)
(* thresholds the detectors use follow the current settings - the motion     *)
(* detector's motionThreshold is 0.05 - motionSensitivity * 0.04 and the     *)
(* sound detector's volumeThreshold is 0.3 - soundSensitivity * 0.25 for the *)
(* sensitivities of the EventManager's current settings - initially and      *)
(* after every local updateSettings and every applied inbound settings       *)
(* message.                                                                  *)
C35_ThresholdsFollowSettings ==
    /\ motionConfig.motionThreshold = 50000 - settings.motionSensitivity * 40
    /\ soundConfig.volumeThreshold = 300000 - settings.soundSensitivity * 250

----------------------------------------------------------------------------
(* Claim on the hook's services, checked under SpecHook *)

(* C36, as claimed: whenever detection is enabled and a video stream is      *)
(* present, the ClipRecorder the hook uses is buffering, and the             *)
(* EventManager in use keeps the settings and the cooldown state established *)
(* so far, also when the hook re-creates its services because the room or    *)
(* the video element changed while enabled and videoStream stayed the same.  *)
C36_Step ==
    /\ (enabled' /\ videoStream') => isBuffering'
    /\ services' # services =>
          /\ settings' = settings
          /\ lastEventTime' = lastEventTime

C36_ServicesKeepBufferingAndState == [][C36_Step]_vars

----------------------------------------------------------------------------
(* Claim on the detection loop, checked under SpecTick *)

(* C37: every motion detection the loop forwards to handleDetection carries  *)
(* confidence exactly 1 and is never rejected by the minimum-confidence      *)
(* gate.  A handleDetection call is made in a pass exactly when the analysis *)
(* of that pass reported hasMotion; the call is for motion, with the         *)
(* result's confidence, which is 1; 1 is not below the minimum confidence of *)
(* the current settings; and the call is rejected only if motion detection   *)
(* is disabled or the motion cooldown has not elapsed.                       *)
C37_Step ==
    /\ lastCall'.n # lastCall.n =>
          /\ lastMotion'.op = "analyze"
          /\ lastMotion'.result.hasMotion
          /\ lastMotion'.result.confidence = <<1, 1>>
          /\ lastCall'.type = "motion"
          /\ lastCall'.confidence = 1000
          /\ 1000 * 1000 >= 600000 - settings.motionSensitivity * 400
          /\ lastCall'.result = "false" =>
                \/ ~settings.motionEnabled
                \/ now - lastEventTime["motion"] < settings.cooldownSeconds * 1000
    /\ (previousFrame' # previousFrame /\ lastCall'.n = lastCall.n /\ nCalls < MaxCalls) =>
          ~lastMotion'.result.hasMotion

C37_ForwardedMotionHasConfidenceOne == [][C37_Step]_vars

(* A forwarded motion detection at the lowest sensitivity, where the minimum *)
(* confidence is highest (0.6) and the motion threshold highest (0.05): one  *)
(* pixel of four changed, and the call was accepted                          *)
C37_Witness ==
    /\ settings.motionSensitivity = 0
    /\ motionConfig.motionThreshold = 50000
    /\ lastMotion.op = "analyze"
    /\ lastMotion.result.hasMotion
    /\ lastMotion.result.score = <<1, 4>>
    /\ lastCall.n > 0
    /\ lastCall.at = now
    /\ lastCall.confidence = 1000
    /\ lastCall.result = "pending"

----------------------------------------------------------------------------
(* Claim on the pairing routes, checked under SpecPairing *)

(* C38, as claimed: a pairing code is single-use.  For any code at most one  *)
(* POST /complete request succeeds and at most one device is created, also   *)
(* when two requests carrying the same unexpired, unused code are processed  *)
(* concurrently.                                                             *)
C38_PairingCodeSingleUse ==
    \A k \in DOMAIN pairingCodes :
       /\ Cardinality({d \in DOMAIN devices : devices[d].pairingCode = k}) <= 1
       /\ Cardinality({r \in DOMAIN requests :
                          requests[r].pairingCode = k /\ requests[r].status = 200}) <= 1

====
